---- MODULE Spec2Model ----
(***************************************************************************)
(* State-machine model of the school-onboarding bulk-import pipeline:      *)
(*   BulkImport      (src/unnamed/part_000)  the generic import session    *)
(*   ColumnMapper    (src/unnamed/part_001)  the mapping editor            *)
(*   AttendanceStep  (src/src/components/onboarding/AttendanceStep.tsx)    *)
(*                                                                         *)
(* Conventions.                                                            *)
(*  - A JavaScript cell value is a record [t, s]: t is its type            *)
(*    ("undefined", "string", "number") and s its text (for a number the   *)
(*    text String(value) gives).                                           *)
(*  - TLC cannot index a string, so Chars(s) gives the characters of every *)
(*    string literal the model uses; regular expressions, trim() and       *)
(*    includes() are computed on those characters.                         *)
(*  - similarity is kept in percent (the code's 1 is 100).                 *)
(*  - React state: every handler reads the state of the render it was      *)
(*    created in and writes with setX; a handler run from an asynchronous  *)
(*    callback reads the render in which the request was started.          *)
(***************************************************************************)
EXTENDS Integers, Sequences, FiniteSets, TLC

(***************************************************************************)
(* Bounds of the model                                                     *)
(***************************************************************************)
\* in-flight file parses
MaxPending == 1
\* addMapping / editMapping / deleteMapping operations in one behaviour
MaxMappingOps == 1
\* file uploads in one behaviour
MaxUploads == 1
\* the most mapping operations of a session of the mapping panel
MaxEdits == 2

\* file uploads, and parses in flight at once, in a behaviour of uploads only
MaxReloads == 2

(***************************************************************************)
(* JavaScript values                                                       *)
(***************************************************************************)
Undefined == [t |-> "undefined", s |-> ""]
Null == [t |-> "null", s |-> ""]
Str(s) == [t |-> "string", s |-> s]
Num(s) == [t |-> "number", s |-> s]

\* The characters of the string literals of the model.
CharsTable ==
  ("" :> <<>>)
  @@ (" " :> <<" ">>)
  @@ ("#" :> <<"#">>)
  @@ ("0" :> <<"0">>)
  @@ ("1" :> <<"1">>)
  @@ ("2" :> <<"2">>)
  @@ ("3" :> <<"3">>)
  @@ ("4" :> <<"4">>)
  @@ ("5" :> <<"5">>)
  @@ ("6" :> <<"6">>)
  @@ ("10" :> <<"1", "0">>)
  @@ ("170" :> <<"1", "7", "0">>)
  @@ ("180" :> <<"1", "8", "0">>)
  @@ ("S1" :> <<"S", "1">>)
  @@ ("S2" :> <<"S", "2">>)
  @@ ("S9" :> <<"S", "9">>)
  @@ ("abc" :> <<"a", "b", "c">>)
  @@ ("a@b.co" :> <<"a", "@", "b", ".", "c", "o">>)
  @@ ("not-an-email" :> <<"n", "o", "t", "-", "a", "n", "-", "e", "m", "a", "i", "l">>)
  @@ ("2024-01-05" :> <<"2", "0", "2", "4", "-", "0", "1", "-", "0", "5">>)
  @@ ("2024-01-06" :> <<"2", "0", "2", "4", "-", "0", "1", "-", "0", "6">>)
  @@ ("2024-13-40" :> <<"2", "0", "2", "4", "-", "1", "3", "-", "4", "0">>)
  @@ ("01/05/2024" :> <<"0", "1", "/", "0", "5", "/", "2", "0", "2", "4">>)
  @@ ("13/45/2024" :> <<"1", "3", "/", "4", "5", "/", "2", "0", "2", "4">>)
  @@ ("13/45/99" :> <<"1", "3", "/", "4", "5", "/", "9", "9">>)
  @@ ("1-2-3" :> <<"1", "-", "2", "-", "3">>)
  @@ ("garbage" :> <<"g", "a", "r", "b", "a", "g", "e">>)
  @@ ("1970-01-01" :> <<"1", "9", "7", "0", "-", "0", "1", "-", "0", "1">>)
  @@ ("undefined" :> <<"u", "n", "d", "e", "f", "i", "n", "e", "d">>)
  @@ ("null" :> <<"n", "u", "l", "l">>)
  @@ ("email" :> <<"e", "m", "a", "i", "l">>)
  @@ ("date" :> <<"d", "a", "t", "e">>)
  @@ ("id" :> <<"i", "d">>)
  @@ ("result date" :> <<"r", "e", "s", "u", "l", "t", " ", "d", "a", "t", "e">>)
  @@ ("Export Date" :> <<"E", "x", "p", "o", "r", "t", " ", "D", "a", "t", "e">>)
  @@ ("District" :> <<"D", "i", "s", "t", "r", "i", "c", "t">>)
  @@ ("SY 2023-2024" :> <<"S", "Y", " ", "2", "0", "2", "3", "-", "2", "0", "2", "4">>)
  @@ ("school_student_id" :> <<"s", "c", "h", "o", "o", "l", "_", "s", "t", "u", "d", "e", "n", "t", "_", "i", "d">>)
  @@ ("record_date" :> <<"r", "e", "c", "o", "r", "d", "_", "d", "a", "t", "e">>)
  @@ ("total_days_present" :> <<"t", "o", "t", "a", "l", "_", "d", "a", "y", "s", "_", "p", "r", "e", "s", "e", "n", "t">>)
  @@ ("total_days_possible" :> <<"t", "o", "t", "a", "l", "_", "d", "a", "y", "s", "_", "p", "o", "s", "s", "i", "b", "l", "e">>)
  @@ ("fy_absences_total" :> <<"f", "y", "_", "a", "b", "s", "e", "n", "c", "e", "s", "_", "t", "o", "t", "a", "l">>)
  @@ ("fy_absences_excused" :> <<"f", "y", "_", "a", "b", "s", "e", "n", "c", "e", "s", "_", "e", "x", "c", "u", "s", "e", "d">>)
  @@ ("fy_absences_unexcused" :> <<"f", "y", "_", "a", "b", "s", "e", "n", "c", "e", "s", "_", "u", "n", "e", "x", "c", "u", "s", "e", "d">>)
  @@ ("fy_tardies_total" :> <<"f", "y", "_", "t", "a", "r", "d", "i", "e", "s", "_", "t", "o", "t", "a", "l">>)
  @@ ("guardian1_email" :> <<"g", "u", "a", "r", "d", "i", "a", "n", "1", "_", "e", "m", "a", "i", "l">>)
  @@ ("student_id" :> <<"s", "t", "u", "d", "e", "n", "t", "_", "i", "d">>)
  @@ ("nickname" :> <<"n", "i", "c", "k", "n", "a", "m", "e">>)
  @@ ("daily_attendance_rate" :> <<"d", "a", "i", "l", "y", "_", "a", "t", "t", "e", "n", "d", "a", "n", "c", "e", "_", "r", "a", "t", "e">>)
  @@ ("mp1_attendance_rate" :> <<"m", "p", "1", "_", "a", "t", "t", "e", "n", "d", "a", "n", "c", "e", "_", "r", "a", "t", "e">>)
  @@ ("mp2_attendance_rate" :> <<"m", "p", "2", "_", "a", "t", "t", "e", "n", "d", "a", "n", "c", "e", "_", "r", "a", "t", "e">>)
  @@ ("mp3_attendance_rate" :> <<"m", "p", "3", "_", "a", "t", "t", "e", "n", "d", "a", "n", "c", "e", "_", "r", "a", "t", "e">>)
  @@ ("mp4_attendance_rate" :> <<"m", "p", "4", "_", "a", "t", "t", "e", "n", "d", "a", "n", "c", "e", "_", "r", "a", "t", "e">>)
  @@ ("ID" :> <<"I", "D">>)
  @@ ("Student ID" :> <<"S", "t", "u", "d", "e", "n", "t", " ", "I", "D">>)
  @@ ("StudentID" :> <<"S", "t", "u", "d", "e", "n", "t", "I", "D">>)
  @@ ("Result Date" :> <<"R", "e", "s", "u", "l", "t", " ", "D", "a", "t", "e">>)
  @@ ("Date" :> <<"D", "a", "t", "e">>)
  @@ (" Date " :> <<" ", "D", "a", "t", "e", " ">>)
  @@ ("Total Days Present" :> <<"T", "o", "t", "a", "l", " ", "D", "a", "y", "s", " ", "P", "r", "e", "s", "e", "n", "t">>)
  @@ ("Days Present" :> <<"D", "a", "y", "s", " ", "P", "r", "e", "s", "e", "n", "t">>)
  @@ ("Total Days Possible" :> <<"T", "o", "t", "a", "l", " ", "D", "a", "y", "s", " ", "P", "o", "s", "s", "i", "b", "l", "e">>)
  @@ ("Days Possible" :> <<"D", "a", "y", "s", " ", "P", "o", "s", "s", "i", "b", "l", "e">>)
  @@ ("FY Absences (Total Days)" :> <<"F", "Y", " ", "A", "b", "s", "e", "n", "c", "e", "s", " ", "(", "T", "o", "t", "a", "l", " ", "D", "a", "y", "s", ")">>)
  @@ ("Total Absences" :> <<"T", "o", "t", "a", "l", " ", "A", "b", "s", "e", "n", "c", "e", "s">>)
  @@ ("FY Absences (Excused Days)" :> <<"F", "Y", " ", "A", "b", "s", "e", "n", "c", "e", "s", " ", "(", "E", "x", "c", "u", "s", "e", "d", " ", "D", "a", "y", "s", ")">>)
  @@ ("Excused Absences" :> <<"E", "x", "c", "u", "s", "e", "d", " ", "A", "b", "s", "e", "n", "c", "e", "s">>)
  @@ ("FY Absences (Unexcused Days)" :> <<"F", "Y", " ", "A", "b", "s", "e", "n", "c", "e", "s", " ", "(", "U", "n", "e", "x", "c", "u", "s", "e", "d", " ", "D", "a", "y", "s", ")">>)
  @@ ("Unexcused Absences" :> <<"U", "n", "e", "x", "c", "u", "s", "e", "d", " ", "A", "b", "s", "e", "n", "c", "e", "s">>)
  @@ ("FY Tardies (Total Days)" :> <<"F", "Y", " ", "T", "a", "r", "d", "i", "e", "s", " ", "(", "T", "o", "t", "a", "l", " ", "D", "a", "y", "s", ")">>)
  @@ ("Total Tardies" :> <<"T", "o", "t", "a", "l", " ", "T", "a", "r", "d", "i", "e", "s">>)
  @@ ("Daily Attendance Rate" :> <<"D", "a", "i", "l", "y", " ", "A", "t", "t", "e", "n", "d", "a", "n", "c", "e", " ", "R", "a", "t", "e">>)
  @@ ("MP1 (Daily Attendance Rate)" :> <<"M", "P", "1", " ", "(", "D", "a", "i", "l", "y", " ", "A", "t", "t", "e", "n", "d", "a", "n", "c", "e", " ", "R", "a", "t", "e", ")">>)
  @@ ("MP2 (Daily Attendance Rate)" :> <<"M", "P", "2", " ", "(", "D", "a", "i", "l", "y", " ", "A", "t", "t", "e", "n", "d", "a", "n", "c", "e", " ", "R", "a", "t", "e", ")">>)
  @@ ("MP3 (Daily Attendance Rate)" :> <<"M", "P", "3", " ", "(", "D", "a", "i", "l", "y", " ", "A", "t", "t", "e", "n", "d", "a", "n", "c", "e", " ", "R", "a", "t", "e", ")">>)
  @@ ("MP4 (Daily Attendance Rate)" :> <<"M", "P", "4", " ", "(", "D", "a", "i", "l", "y", " ", "A", "t", "t", "e", "n", "d", "a", "n", "c", "e", " ", "R", "a", "t", "e", ")">>)
  @@ ("Guardian Email" :> <<"G", "u", "a", "r", "d", "i", "a", "n", " ", "E", "m", "a", "i", "l">>)
  @@ ("Notes" :> <<"N", "o", "t", "e", "s">>)
  @@ ("school student id" :> <<"s", "c", "h", "o", "o", "l", " ", "s", "t", "u", "d", "e", "n", "t", " ", "i", "d">>)
  @@ ("student id" :> <<"s", "t", "u", "d", "e", "n", "t", " ", "i", "d">>)
  @@ ("studentid" :> <<"s", "t", "u", "d", "e", "n", "t", "i", "d">>)
  @@ ("record date" :> <<"r", "e", "c", "o", "r", "d", " ", "d", "a", "t", "e">>)
  @@ ("total days present" :> <<"t", "o", "t", "a", "l", " ", "d", "a", "y", "s", " ", "p", "r", "e", "s", "e", "n", "t">>)
  @@ ("days present" :> <<"d", "a", "y", "s", " ", "p", "r", "e", "s", "e", "n", "t">>)
  @@ ("total days possible" :> <<"t", "o", "t", "a", "l", " ", "d", "a", "y", "s", " ", "p", "o", "s", "s", "i", "b", "l", "e">>)
  @@ ("days possible" :> <<"d", "a", "y", "s", " ", "p", "o", "s", "s", "i", "b", "l", "e">>)
  @@ ("fy absences (total days)" :> <<"f", "y", " ", "a", "b", "s", "e", "n", "c", "e", "s", " ", "(", "t", "o", "t", "a", "l", " ", "d", "a", "y", "s", ")">>)
  @@ ("total absences" :> <<"t", "o", "t", "a", "l", " ", "a", "b", "s", "e", "n", "c", "e", "s">>)
  @@ ("fy absences (excused days)" :> <<"f", "y", " ", "a", "b", "s", "e", "n", "c", "e", "s", " ", "(", "e", "x", "c", "u", "s", "e", "d", " ", "d", "a", "y", "s", ")">>)
  @@ ("excused absences" :> <<"e", "x", "c", "u", "s", "e", "d", " ", "a", "b", "s", "e", "n", "c", "e", "s">>)
  @@ ("fy absences (unexcused days)" :> <<"f", "y", " ", "a", "b", "s", "e", "n", "c", "e", "s", " ", "(", "u", "n", "e", "x", "c", "u", "s", "e", "d", " ", "d", "a", "y", "s", ")">>)
  @@ ("unexcused absences" :> <<"u", "n", "e", "x", "c", "u", "s", "e", "d", " ", "a", "b", "s", "e", "n", "c", "e", "s">>)
  @@ ("fy tardies (total days)" :> <<"f", "y", " ", "t", "a", "r", "d", "i", "e", "s", " ", "(", "t", "o", "t", "a", "l", " ", "d", "a", "y", "s", ")">>)
  @@ ("total tardies" :> <<"t", "o", "t", "a", "l", " ", "t", "a", "r", "d", "i", "e", "s">>)
  @@ ("daily attendance rate" :> <<"d", "a", "i", "l", "y", " ", "a", "t", "t", "e", "n", "d", "a", "n", "c", "e", " ", "r", "a", "t", "e">>)
  @@ ("mp1 (daily attendance rate)" :> <<"m", "p", "1", " ", "(", "d", "a", "i", "l", "y", " ", "a", "t", "t", "e", "n", "d", "a", "n", "c", "e", " ", "r", "a", "t", "e", ")">>)
  @@ ("mp1 attendance rate" :> <<"m", "p", "1", " ", "a", "t", "t", "e", "n", "d", "a", "n", "c", "e", " ", "r", "a", "t", "e">>)
  @@ ("mp2 (daily attendance rate)" :> <<"m", "p", "2", " ", "(", "d", "a", "i", "l", "y", " ", "a", "t", "t", "e", "n", "d", "a", "n", "c", "e", " ", "r", "a", "t", "e", ")">>)
  @@ ("mp2 attendance rate" :> <<"m", "p", "2", " ", "a", "t", "t", "e", "n", "d", "a", "n", "c", "e", " ", "r", "a", "t", "e">>)
  @@ ("mp3 (daily attendance rate)" :> <<"m", "p", "3", " ", "(", "d", "a", "i", "l", "y", " ", "a", "t", "t", "e", "n", "d", "a", "n", "c", "e", " ", "r", "a", "t", "e", ")">>)
  @@ ("mp3 attendance rate" :> <<"m", "p", "3", " ", "a", "t", "t", "e", "n", "d", "a", "n", "c", "e", " ", "r", "a", "t", "e">>)
  @@ ("mp4 (daily attendance rate)" :> <<"m", "p", "4", " ", "(", "d", "a", "i", "l", "y", " ", "a", "t", "t", "e", "n", "d", "a", "n", "c", "e", " ", "r", "a", "t", "e", ")">>)
  @@ ("mp4 attendance rate" :> <<"m", "p", "4", " ", "a", "t", "t", "e", "n", "d", "a", "n", "c", "e", " ", "r", "a", "t", "e">>)
  @@ ("string" :> <<"s", "t", "r", "i", "n", "g">>)
  @@ (" 3 " :> <<" ", "3", " ">>)
  @@ (" Student ID " :> <<" ", "S", "t", "u", "d", "e", "n", "t", " ", "I", "D", " ">>)
  @@ ("11" :> <<"1", "1">>)
  @@ ("12" :> <<"1", "2">>)
  @@ ("2024" :> <<"2", "0", "2", "4">>)
  @@ ("2024-02-28" :> <<"2", "0", "2", "4", "-", "0", "2", "-", "2", "8">>)
  @@ ("2024-06-30" :> <<"2", "0", "2", "4", "-", "0", "6", "-", "3", "0">>)
  @@ ("7" :> <<"7">>)
  @@ ("8" :> <<"8">>)
  @@ ("86400" :> <<"8", "6", "4", "0", "0">>)
  @@ ("9" :> <<"9">>)
  @@ ("94.4" :> <<"9", "4", ".", "4">>)
  @@ ("Attendance" :> <<"A", "t", "t", "e", "n", "d", "a", "n", "c", "e">>)
  @@ ("D1" :> <<"D", "1">>)
  @@ ("Name" :> <<"N", "a", "m", "e">>)
  @@ ("No" :> <<"N", "o">>)
  @@ ("SY 2024-25" :> <<"S", "Y", " ", "2", "0", "2", "4", "-", "2", "5">>)
  @@ ("School Year" :> <<"S", "c", "h", "o", "o", "l", " ", "Y", "e", "a", "r">>)
  @@ ("Year" :> <<"Y", "e", "a", "r">>)

Chars(s) == CharsTable[s]

Digits == {"0", "1", "2", "3", "4", "5", "6", "7", "8", "9"}
HexDigits == Digits \cup {"a", "b", "c", "d", "e", "f", "A", "B", "C", "D", "E", "F"}
\* the characters of the model's alphabet that \s matches
Whitespace == {" "}

\* !!value
Truthy(v) ==
  CASE v.t \in {"undefined", "null"} -> FALSE
    [] v.t = "string" -> v.s # ""
    [] v.t = "number" -> v.s # "0"

\* value.toString().trim() === ''
TrimIsEmpty(v) == \A i \in DOMAIN Chars(v.s) : Chars(v.s)[i] \in Whitespace

\* cs.trim()
RECURSIVE TrimLeft(_)
TrimLeft(cs) ==
  IF cs # <<>> /\ Head(cs) \in Whitespace THEN TrimLeft(Tail(cs)) ELSE cs

RECURSIVE TrimRight(_)
TrimRight(cs) ==
  IF cs # <<>> /\ cs[Len(cs)] \in Whitespace
  THEN TrimRight(SubSeq(cs, 1, Len(cs) - 1))
  ELSE cs

Trim(cs) == TrimRight(TrimLeft(cs))

\* haystack.includes(needle)
Includes(hay, needle) ==
  \E k \in 0..(Len(hay) - Len(needle)) :
    \A i \in 1..Len(needle) : hay[k + i] = needle[i]

\* c.toLowerCase() for one character
LowerChar(c) ==
  CASE c = "A" -> "a" [] c = "B" -> "b" [] c = "C" -> "c" [] c = "D" -> "d"
    [] c = "E" -> "e" [] c = "F" -> "f" [] c = "G" -> "g" [] c = "H" -> "h"
    [] c = "I" -> "i" [] c = "J" -> "j" [] c = "K" -> "k" [] c = "L" -> "l"
    [] c = "M" -> "m" [] c = "N" -> "n" [] c = "O" -> "o" [] c = "P" -> "p"
    [] c = "Q" -> "q" [] c = "R" -> "r" [] c = "S" -> "s" [] c = "T" -> "t"
    [] c = "U" -> "u" [] c = "V" -> "v" [] c = "W" -> "w" [] c = "X" -> "x"
    [] c = "Y" -> "y" [] c = "Z" -> "z" [] OTHER -> c

\* cs.toLowerCase()
ToLowerCase(cs) == [i \in DOMAIN cs |-> LowerChar(cs[i])]

\* /^[^\s@]+@[^\s@]+\.[^\s@]+$/.test(value)
emailRegex(cs) ==
  LET ok(a, b) == a <= b /\ \A i \in a..b : cs[i] \notin (Whitespace \cup {"@"})
  IN  \E i \in 1..Len(cs) : \E j \in 1..Len(cs) :
        /\ cs[i] = "@"
        /\ cs[j] = "."
        /\ ok(1, i - 1)
        /\ ok(i + 1, j - 1)
        /\ ok(j + 1, Len(cs))

\* /^\d{4}-\d{2}-\d{2}$/.test(value)
dateRegex(cs) ==
  /\ Len(cs) = 10
  /\ \A i \in {1, 2, 3, 4, 6, 7, 9, 10} : cs[i] \in Digits
  /\ cs[5] = "-"
  /\ cs[8] = "-"

\* /^[0-9a-f]{8}-[0-9a-f]{4}-[0-9a-f]{4}-[0-9a-f]{4}-[0-9a-f]{12}$/i.test(value)
uuidRegex(cs) ==
  /\ Len(cs) = 36
  /\ \A i \in 1..36 :
       IF i \in {9, 14, 19, 24} THEN cs[i] = "-" ELSE cs[i] \in HexDigits

\* isNaN(Number(value)): a number is itself; a string is trimmed, the empty
\* string is 0, and a decimal literal [+-]digits[.digits] is a number (the
\* model's strings hold no exponent, hex or Infinity literal)
NumberIsNaN(v) ==
  IF v.t = "number" THEN FALSE
  ELSE LET cs == Trim(Chars(v.s))
           body == IF cs # <<>> /\ Head(cs) \in {"+", "-"} THEN Tail(cs) ELSE cs
           dots == {i \in DOMAIN body : body[i] = "."}
       IN  IF cs = <<>> THEN FALSE
           ELSE ~ (/\ \A i \in DOMAIN body : body[i] \in Digits \cup {"."}
                   /\ Cardinality(dots) <= 1
                   /\ \E i \in DOMAIN body : body[i] \in Digits)

(***************************************************************************)
(* Generic sequence helpers                                                *)
(***************************************************************************)
Range(f) == {f[i] : i \in DOMAIN f}

\* array.includes(x)
SeqIncludes(seq, x) == \E i \in DOMAIN seq : seq[i] = x

\* the concatenation of a sequence of sequences
RECURSIVE Flatten(_)
Flatten(ss) == IF ss = <<>> THEN <<>> ELSE Head(ss) \o Flatten(Tail(ss))

Least(S) == CHOOSE x \in S : \A y \in S : x <= y
Greatest(S) == CHOOSE x \in S : \A y \in S : x >= y

\* array.slice(0, n)
Slice(seq, n) == SubSeq(seq, 1, IF Len(seq) < n THEN Len(seq) ELSE n)

\* RemoveAt that drops the last element whatever the index
RemoveLast(seq, index) == SubSeq(seq, 1, Len(seq) - 1)

\* array.filter((_, i) => i !== index)
RemoveAt(seq, index) ==
  [i \in 1..(Len(seq) - 1) |-> IF i < index THEN seq[i] ELSE seq[i + 1]]

(***************************************************************************)
(* Props of BulkImport as AttendanceStep passes them, and the tables of    *)
(* bulk-import/constants                                                   *)
(***************************************************************************)
\* requiredFields
requiredFields ==
  <<"school_student_id", "record_date", "total_days_present",
    "total_days_possible", "fy_absences_total", "fy_absences_excused",
    "fy_absences_unexcused", "fy_tardies_total">>

\* the keys of the template prop
template ==
  {"school_student_id", "record_date", "total_days_present",
   "total_days_possible", "fy_absences_total", "fy_absences_excused",
   "fy_absences_unexcused", "fy_tardies_total", "attendance_year",
   "daily_attendance_rate", "mp1_attendance_rate", "mp2_attendance_rate",
   "mp3_attendance_rate", "mp4_attendance_rate"}

getCurrentStep ==
  IF "guardian1_name" \in template THEN "students"
  ELSE IF "qualification1" \in template THEN "teachers"
  ELSE IF "admin_user_type" \in template THEN "admins"
  ELSE IF "classroom_name" \in template THEN "classrooms"
  ELSE "students"

currentStep == getCurrentStep

\* AVAILABLE_COLUMNS of bulk-import/constants: the allowed target fields of
\* each record type.  The file is not part of the sources; the list for the
\* importer's record type holds the fields the specification maps to.
AVAILABLE_COLUMNS ==
  [students |->
     <<"school_student_id", "record_date", "total_days_present",
       "total_days_possible", "fy_absences_total", "fy_absences_excused",
       "fy_absences_unexcused", "fy_tardies_total", "guardian1_email">>]

\* COLUMN_TYPES of bulk-import/constants: the declared type of a field
COLUMN_TYPES(field) ==
  CASE field \in {"total_days_present", "total_days_possible",
                  "fy_absences_total", "fy_absences_excused",
                  "fy_absences_unexcused", "fy_tardies_total"} -> "integer"
    [] field = "student_id" -> "uuid"
    [] OTHER -> "text"

(***************************************************************************)
(* validateData  (BulkImport)                                              *)
(***************************************************************************)
\* row[column]
Cell(row, column) == IF column \in DOMAIN row THEN row[column] ELSE Undefined

RequiredError(field, index) ==
  [type |-> "required", field |-> field, row |-> index, value |-> Undefined,
   message |-> "Missing required value", missing |-> <<>>]

FormatError(field, index, value, message) ==
  [type |-> "format", field |-> field, row |-> index, value |-> value,
   message |-> message, missing |-> <<>>]

\* the required check of one mapping on one row (part of the forEach body)
RequiredCheck(row, index, mapping) ==
  LET value == Cell(row, mapping.csvColumn)
      field == mapping.dbColumn
  IN  IF SeqIncludes(requiredFields, field)
           /\ (~ Truthy(value) \/ TrimIsEmpty(value))
      THEN <<RequiredError(field, index)>> ELSE <<>>

\* the email, date, number and UUID checks of one mapping on one row
FormatChecks(row, index, mapping) ==
  LET value == Cell(row, mapping.csvColumn)
      field == mapping.dbColumn
      columnType == COLUMN_TYPES(field)
      text == Chars(value.s)
  IN    (IF Includes(ToLowerCase(Chars(field)), Chars("email")) /\ Truthy(value)
             /\ ~ emailRegex(text)
         THEN <<FormatError(field, index, value, "Invalid email format")>>
         ELSE <<>>)
        \o
        (IF Includes(Chars(field), Chars("date")) /\ Truthy(value)
             /\ ~ dateRegex(text)
         THEN <<FormatError(field, index, value, "Invalid date format")>>
         ELSE <<>>)
        \o
        (IF columnType \in {"numeric", "integer"} /\ Truthy(value)
             /\ NumberIsNaN(value)
         THEN <<FormatError(field, index, value, "Invalid number format")>>
         ELSE <<>>)
        \o
        (IF columnType = "uuid" /\ Truthy(value) /\ ~ uuidRegex(text)
         THEN <<FormatError(field, index, value, "Invalid UUID format")>>
         ELSE <<>>)

\* MappingChecks that stops at the first check that fails
MappingChecksFirstOnly(row, index, mapping) ==
  IF ~ mapping.matched THEN <<>>
  ELSE IF RequiredCheck(row, index, mapping) # <<>>
  THEN RequiredCheck(row, index, mapping)
  ELSE Slice(FormatChecks(row, index, mapping), 1)

\* the body of columnMappings.forEach for one row: the errors one mapping adds
MappingChecks(row, index, mapping) ==
  IF ~ mapping.matched THEN <<>>
  ELSE RequiredCheck(row, index, mapping) \o FormatChecks(row, index, mapping)

\* rowErrors of the row at 0-based position i - 1 (its errors carry row: i)
RowErrors(row, i, mappings) ==
  Flatten([k \in DOMAIN mappings |-> MappingChecks(row, i, mappings[k])])

\* validateData that numbers the row states from 1
validateDataFromOne(data, mappings) ==
  [errors |-> Flatten([i \in DOMAIN data |-> RowErrors(data[i], i, mappings)]),
   rowValidations |->
     [i \in DOMAIN data |->
        [rowIndex |-> i,
         errors |-> RowErrors(data[i], i, mappings),
         excluded |-> FALSE]]]

\* validateData(data) in a render whose columnMappings is `mappings`:
\* [errors, rowValidations]
validateData(data, mappings) ==
  [errors |-> Flatten([i \in DOMAIN data |-> RowErrors(data[i], i, mappings)]),
   rowValidations |->
     [i \in DOMAIN data |->
        [rowIndex |-> i - 1,
         errors |-> RowErrors(data[i], i, mappings),
         excluded |-> FALSE]]]

(***************************************************************************)
(* findBestColumnMatches  (utils/columnMatcher, not part of the sources:   *)
(* modelled from the specification of the Column Matcher)                  *)
(***************************************************************************)
\* the acceptance threshold, in percent
MatchThreshold == 60

\* the similarity score of a source header and a target field, in percent
Similarity(header, target) ==
  CASE header = "Student ID" /\ target = "school_student_id" -> 85
    [] header = "Date" /\ target = "record_date" -> 70
    [] header = "Days Present" /\ target = "total_days_present" -> 90
    [] header = "Days Possible" /\ target = "total_days_possible" -> 90
    [] header = "Total Absences" /\ target = "fy_absences_total" -> 75
    [] header = "Excused Absences" /\ target = "fy_absences_excused" -> 75
    [] header = "Unexcused Absences" /\ target = "fy_absences_unexcused" -> 80
    [] header = "Total Tardies" /\ target = "fy_tardies_total" -> 75
    [] header = "Guardian Email" /\ target = "guardian1_email" -> 90
    [] header = "Notes" /\ target = "total_days_possible" -> 30
    [] OTHER -> 0

\* the first target with the highest score
BestTarget(header, targets) ==
  CHOOSE k \in DOMAIN targets :
    /\ \A j \in DOMAIN targets :
         Similarity(header, targets[j]) <= Similarity(header, targets[k])
    /\ \A j \in 1..(k - 1) :
         Similarity(header, targets[j]) < Similarity(header, targets[k])

findBestColumnMatches(columns, targets) ==
  [i \in DOMAIN columns |->
     IF targets = <<>>
     THEN [csvColumn |-> columns[i], dbColumn |-> "", similarity |-> 0,
           matched |-> FALSE, manual |-> FALSE]
     ELSE LET k == BestTarget(columns[i], targets)
              score == Similarity(columns[i], targets[k])
          IN  [csvColumn |-> columns[i], dbColumn |-> targets[k],
               similarity |-> score, matched |-> score >= MatchThreshold,
               manual |-> FALSE]]

(***************************************************************************)
(* The files a user uploads                                                *)
(***************************************************************************)
\* the header row, in file order
HeaderOrder ==
  <<"Student ID", "Date", "Days Present", "Days Possible", "Total Absences",
    "Excused Absences", "Unexcused Absences", "Total Tardies",
    "Guardian Email", "Notes">>

\* a parsed row: header -> value, from the cells in header order; a cell
\* that is Undefined is absent from the row (sheet_to_json drops empty cells)
Row(cells) ==
  [h \in {HeaderOrder[i] : i \in {j \in DOMAIN cells : cells[j] # Undefined}} |->
     cells[CHOOSE i \in DOMAIN cells : HeaderOrder[i] = h]]

GoodRow ==
  Row(<<Str("S1"), Str("2024-01-05"), Str("170"), Str("180"), Str("10"),
        Str("6"), Str("4"), Str("3"), Str("a@b.co")>>)

BadRow ==
  Row(<<Str(" "), Str("01/05/2024"), Str("abc"), Str("180"), Str("10"),
        Str("6"), Str("4"), Str("3"), Str("not-an-email")>>)

SheetRow ==
  Row(<<Str("S2"), Str("2024-13-40"), Num("170"), Num("180"), Num("10"),
        Num("6"), Num("4"), Num("0"), Undefined, Str("abc")>>)

ExampleRow == Row(<<Str("S1"), Str("2024-01-05")>>)

\* name: the file name's extension; outcome: what the parser or reader
\* reports; rows: results.data / sheet_to_json(worksheet)
File(ext, outcome, rows) == [ext |-> ext, outcome |-> outcome, rows |-> rows]

Files ==
  {File("csv", "rows", <<GoodRow, BadRow>>),
   File("xlsx", "rows", <<SheetRow, GoodRow>>),
   File("csv", "rows", <<ExampleRow>>),
   File("csv", "rows", <<>>),
   File("xls", "rows", <<>>),
   File("csv", "error", <<>>),
   File("xlsx", "exception", <<>>),
   File("xls", "readerror", <<>>),
   File("pdf", "rows", <<>>)}

\* Object.keys(row), in insertion order
ObjectKeys(row) == SelectSeq(HeaderOrder, LAMBDA h : h \in DOMAIN row)

(***************************************************************************)
(* State                                                                   *)
(***************************************************************************)
VARIABLES
  \* BulkImport's useState cells
  errors, errorSections, columnMappings, showMappings, csvData, showPreview,
  csvColumns, rowValidations, excludeAllInvalid, originalRowValidations,
  \* availableColumns of the render (AVAILABLE_COLUMNS[currentStep] || [])
  availableColumns,
  \* the parses in flight: the file, the columnMappings of the render in
  \* which handleFileUpload ran (what its callbacks' validateData reads) and
  \* the position of the upload in `uploads`
  pending,
  \* the argument of the onImport call the last step made and the csvData
  \* positions of the rows it was built from (both <<>> when it made none)
  onImportData, onImportRows,
  \* AttendanceStep: the accumulated list (cachedData) and the error message
  cachedData, error,
  \* history: the operation that led to this state, the files passed to
  \* handleFileUpload so far (in order), and the count of mapping operations
  lastOp, uploads, mappingOps,
  \* SchoolOnboarding: the wizard's state and its final submit in progress
  onboarding,
  \* useToastStore: the toast and the auto-hide timers that are running
  toast,
  \* useAuthStore: user, loading, error and the calls in flight
  auth

sessionVars ==
  <<errors, errorSections, columnMappings, showMappings, csvData, showPreview,
    csvColumns, rowValidations, excludeAllInvalid, originalRowValidations,
    availableColumns, pending, onImportData, onImportRows>>

attendanceVars == <<cachedData, error>>

historyVars == <<lastOp, uploads, mappingOps>>

storeVars == <<toast, auth>>

vars == <<sessionVars, attendanceVars, historyVars, onboarding, storeVars>>

\* the record of a step; for a step of the bulk toggle, prev names the
\* operation that ran before it
Op(name, index, ok) ==
  [op |-> name, index |-> index, ok |-> ok,
   prev |-> IF name = "toggleExcludeAllInvalid" THEN lastOp.op ELSE "",
   args |-> <<>>]

\* the record of a step that was called with a source column and a target
\* field
OpWith(name, index, ok, csvColumn, dbColumn) ==
  [Op(name, index, ok) EXCEPT !.args = <<csvColumn, dbColumn>>]

\* a step that does not call onImport
NoOnImport == onImportData' = <<>> /\ onImportRows' = <<>>

\* useState<string | null>(null) of AttendanceStep: kind names the message,
\* entries are the row errors it joins
NoError == [kind |-> "null", entries |-> <<>>]

(***************************************************************************)
(* updateErrorSections  (BulkImport)                                       *)
(***************************************************************************)
typeOrder == <<"mapping", "required", "format">>

typeTitles(type) ==
  CASE type = "mapping" -> "Column Mapping Errors"
    [] type = "required" -> "Required Field Errors"
    [] type = "format" -> "Format Validation Errors"

\* the sections updateErrorSections(errs) stores
updateErrorSections(errs) ==
  LET errorsByType(type) == SelectSeq(errs, LAMBDA e : e.type = type)
      present == SelectSeq(typeOrder, LAMBDA type : errorsByType(type) # <<>>)
  IN  [i \in DOMAIN present |->
         [type |-> present[i], title |-> typeTitles(present[i]),
          errors |-> errorsByType(present[i]), isOpen |-> TRUE]]

\* an error of handleFileUpload or of the mapping checks: no field, row, value
PlainError(type, message) ==
  [type |-> type, field |-> "", row |-> 0, value |-> Undefined,
   message |-> message, missing |-> <<>>]

(***************************************************************************)
(* SchoolOnboarding: handleFinalSubmit  (src/unnamed/part_002)             *)
(***************************************************************************)
\* onUpdate calls of the wizard's steps in one behaviour
MaxUpdates == 2
\* presses of Complete Setup in one behaviour
MaxSubmits == 2

\* the collections of onboardingData that are inserted one record at a time,
\* in the order of the loops, with the table each goes to and whether the
\* school's id is spread into the record
Collections ==
  <<[field |-> "admins", table |-> "admin_users", withSchool |-> TRUE],
    [field |-> "teachers", table |-> "teachers", withSchool |-> FALSE],
    [field |-> "students", table |-> "students", withSchool |-> TRUE],
    [field |-> "classrooms", table |-> "classrooms", withSchool |-> TRUE],
    [field |-> "enrollments", table |-> "classroom_enrollments", withSchool |-> FALSE],
    [field |-> "attendanceRecords", table |-> "attendance_records", withSchool |-> FALSE],
    [field |-> "assessmentRecords", table |-> "assessment_external_processed",
     withSchool |-> FALSE],
    [field |-> "individualizedNeeds", table |-> "individualized_needs",
     withSchool |-> FALSE]>>

\* useState<OnboardingData>(...): no district, no school, empty collections
EmptyOnboardingData ==
  [district |-> "{}", school |-> "{}"]
    @@ [f \in {Collections[c].field : c \in DOMAIN Collections} |-> <<>>]

\* onboardingData.district.district_id: set for a district picked from the
\* existing ones, undefined for a new one
DistrictId(district) == IF district = "existing district" THEN "d1" ELSE ""

\* the district_id and school_id the store returns for a row it inserted
NewDistrictId == "d-new"
NewSchoolId == "s-new"

\* one insert: the table, the record and the id spread into it ("" for none)
InsertOf(table, record, link) == [table |-> table, record |-> record, link |-> link]

\* the inserts of one collection, in list order
CollectionInserts(data, c) ==
  [i \in DOMAIN data[Collections[c].field] |->
     InsertOf(Collections[c].table, data[Collections[c].field][i],
              IF Collections[c].withSchool THEN NewSchoolId ELSE "")]

\* the inserts with teachers and students in each other's place
InsertPlanStudentsFirst(data) ==
  (IF DistrictId(data.district) = ""
   THEN <<InsertOf("districts", data.district, "")>> ELSE <<>>)
    \o <<InsertOf("schools", data.school,
                  IF DistrictId(data.district) = ""
                  THEN NewDistrictId ELSE DistrictId(data.district))>>
    \o Flatten([c \in DOMAIN Collections |->
                  CollectionInserts(data, CASE c = 2 -> 3 [] c = 3 -> 2 [] OTHER -> c)])

\* the inserts handleFinalSubmit awaits one after the other when none fails
InsertPlan(data) ==
  (IF DistrictId(data.district) = ""
   THEN <<InsertOf("districts", data.district, "")>> ELSE <<>>)
    \o <<InsertOf("schools", data.school,
                  IF DistrictId(data.district) = ""
                  THEN NewDistrictId ELSE DistrictId(data.district))>>
    \o Flatten([c \in DOMAIN Collections |-> CollectionInserts(data, c)])

\* what a step hands to its onUpdate prop
UpdateChoices ==
  {[field |-> "district", value |-> "existing district"],
   [field |-> "district", value |-> "new district"],
   [field |-> "school", value |-> "school"],
   [field |-> "admins", value |-> <<"admin 1", "admin 2">>],
   [field |-> "teachers", value |-> <<"teacher 1">>],
   [field |-> "students", value |-> <<"student 1", "student 2">>],
   [field |-> "classrooms", value |-> <<"classroom 1">>],
   [field |-> "enrollments", value |-> <<"enrollment 1">>],
   [field |-> "attendanceRecords", value |-> <<"attendance 1", "attendance 2">>],
   [field |-> "assessmentRecords", value |-> <<"assessment 1">>],
   [field |-> "individualizedNeeds", value |-> <<"need 1">>]}

\* the wizard: its useState cells (currentStep, isLoading, error,
\* onboardingData), the run of handleFinalSubmit in progress (submitted: the
\* onboardingData of its closure; issued: the inserts it has called so far;
\* awaiting: whether the last of them is still awaited), the rows the store
\* holds (each with the number of the form it was entered in), the number
\* of forms that were submitted in full and reset, and the counters that
\* bound a behaviour
InitOnboarding ==
  [currentStep |-> "district", isLoading |-> FALSE, error |-> "",
   onboardingData |-> EmptyOnboardingData,
   submitted |-> EmptyOnboardingData, issued |-> <<>>, awaiting |-> FALSE,
   stored |-> <<>>, forms |-> 0, updates |-> 0, submits |-> 0]

\* setOnboardingData(prev => ({ ...prev, [field]: data }))
onUpdate(field, value) ==
  /\ onboarding.updates < MaxUpdates
  /\ onboarding' =
       [onboarding EXCEPT !.onboardingData[field] = value,
                          !.updates = @ + 1]

\* error.message of the error an insert into table returns
InsertErrorMessage(table) == "insert failed: " \o table

\* Complete Setup is pressed (the button is disabled while isLoading): the
\* function runs up to its first await
handleFinalSubmit ==
  /\ ~ onboarding.isLoading
  /\ onboarding.submits < MaxSubmits
  /\ onboarding' =
       [onboarding EXCEPT !.isLoading = TRUE,
                          !.error = "",
                          !.submitted = onboarding.onboardingData,
                          !.issued = <<InsertPlan(onboarding.onboardingData)[1]>>,
                          !.awaiting = TRUE,
                          !.submits = @ + 1]

\* the row the store holds after an insert, with the form it comes from
StoredRow(insert) ==
  [table |-> insert.table, record |-> insert.record, link |-> insert.link,
   form |-> onboarding.forms]

\* the awaited insert returns { error: null }: the next insert is called, or,
\* after the last one, the form is reset
InsertSucceeds ==
  /\ onboarding.awaiting
  /\ LET plan == InsertPlan(onboarding.submitted)
         done == Len(onboarding.issued)
     IN  onboarding' =
           IF done < Len(plan)
           THEN [onboarding EXCEPT !.stored = Append(@, StoredRow(plan[done])),
                                   !.issued = Append(@, plan[done + 1])]
           ELSE [onboarding EXCEPT !.stored = Append(@, StoredRow(plan[done])),
                                   !.forms = @ + 1,
                                   !.awaiting = FALSE,
                                   !.onboardingData = EmptyOnboardingData,
                                   !.currentStep = "district",
                                   !.isLoading = FALSE]

\* InsertFails without the finally block
InsertFailsKeepsLoading ==
  /\ onboarding.awaiting
  /\ onboarding' =
       [onboarding EXCEPT
          !.awaiting = FALSE,
          !.error = InsertErrorMessage(onboarding.issued[Len(onboarding.issued)].table)]

\* the awaited insert returns an error: it is thrown, caught, and its message
\* becomes the wizard's error
InsertFails ==
  /\ onboarding.awaiting
  /\ onboarding' =
       [onboarding EXCEPT
          !.awaiting = FALSE,
          !.error = InsertErrorMessage(onboarding.issued[Len(onboarding.issued)].table),
          !.isLoading = FALSE]

\* the ids of the wizard's steps, in their order
steps ==
  <<"district", "school", "admins", "teachers", "students", "classrooms",
    "enrollment", "attendance", "assessments", "review">>

currentStepIndex == CHOOSE i \in DOMAIN steps : steps[i] = onboarding.currentStep

\* Next is pressed (the button is rendered on every step but the last)
handleNext ==
  /\ currentStepIndex < Len(steps)
  /\ onboarding' = [onboarding EXCEPT !.currentStep = steps[currentStepIndex + 1]]

\* Back is pressed (the button is disabled on the first step)
handleBack ==
  /\ currentStepIndex > 1
  /\ onboarding' = [onboarding EXCEPT !.currentStep = steps[currentStepIndex - 1]]

(***************************************************************************)
(* useToastStore                                                           *)
(***************************************************************************)
\* the most showToast calls of a behaviour
MaxToasts == 3

ToastMessages == {"Saved", "Import failed"}
ToastTypes == {"success", "error"}

\* message null ("" here), type 'info', not visible; timers: the message
\* each running timer's closure holds and the number of the call that
\* started it, in the order they were started (all run 5000 ms, so they
\* fire in that order); shownBy: the number of the call whose toast is in
\* the store; calls: the showToast calls so far
InitToast ==
  [message |-> "", type |-> "info", visible |-> FALSE,
   timers |-> <<>>, shownBy |-> 0, calls |-> 0]

\* showToast(message, type): set(...) and setTimeout(..., 5000)
showToast(message, type) ==
  /\ toast.calls < MaxToasts
  /\ toast' =
       [toast EXCEPT !.message = message, !.type = type, !.visible = TRUE,
                     !.timers = Append(@, [message |-> message, call |-> toast.calls + 1]),
                     !.shownBy = toast.calls + 1,
                     !.calls = @ + 1]

\* the timer callback: state.message === message ? { visible: false } : state
TimerCallback(timer, state) ==
  IF state.message = timer.message
  THEN [state EXCEPT !.visible = FALSE]
  ELSE state

\* the oldest running timer fires
TimerFires ==
  /\ toast.timers # <<>>
  /\ toast' = [TimerCallback(toast.timers[1], toast) EXCEPT !.timers = Tail(@)]

\* hideToast: set({ visible: false })
hideToast ==
  /\ toast.visible
  /\ toast' = [toast EXCEPT !.visible = FALSE]

StoreFrame ==
  UNCHANGED <<sessionVars, attendanceVars, historyVars, onboarding>>

NextToast ==
  \/ \E message \in ToastMessages, type \in ToastTypes :
       showToast(message, type) /\ UNCHANGED auth /\ StoreFrame
  \/ TimerFires /\ UNCHANGED auth /\ StoreFrame
  \/ hideToast /\ UNCHANGED auth /\ StoreFrame

(***************************************************************************)
(* useAuthStore                                                            *)
(***************************************************************************)
\* the most login and logout calls of a behaviour
MaxAuthCalls == 2

\* the users supabase returns, and the session user of getSession and of
\* the listener ("" for no session)
AuthUsers == {"user-1", "user-2"}
SessionUsers == AuthUsers \cup {""}

\* error.message of the error a call ends with ("" for an error without one)
AuthMessages == {"Invalid login credentials", ""}

\* user null ("" here), loading true, error null (""); inFlight: the login
\* and logout calls that are awaited, each with its number; resolved: the
\* call that resolved last, whether without error, and the user it
\* returned; getSession: whether the promise of the initial getSession()
\* is still pending; calls: the login and logout calls so far
InitAuth ==
  [user |-> "", loading |-> TRUE, error |-> "",
   inFlight |-> {},
   resolved |-> [call |-> 0, kind |-> "", ok |-> TRUE, returned |-> ""],
   getSession |-> TRUE, calls |-> 0]

\* a call starts: it is awaited from now on
Called(kind) == [call |-> auth.calls + 1, kind |-> kind]

\* a call ends
Resolved(op, ok, returned) ==
  [call |-> op.call, kind |-> op.kind, ok |-> ok, returned |-> returned]

\* login(email, password) up to its await
login ==
  /\ auth.calls < MaxAuthCalls
  /\ auth' = [auth EXCEPT !.loading = TRUE, !.error = "",
                          !.inFlight = @ \cup {Called("login")},
                          !.calls = @ + 1]

\* signInWithPassword returns no error: set({ user: data.user, loading: false })
LoginSucceeds(op, user) ==
  /\ op \in auth.inFlight /\ op.kind = "login"
  /\ auth' = [auth EXCEPT !.user = user, !.loading = FALSE,
                          !.inFlight = @ \ {op},
                          !.resolved = Resolved(op, TRUE, user)]

\* error.message || fallback
MessageOr(message, fallback) == IF message = "" THEN fallback ELSE message

\* signInWithPassword returns an error or throws: the catch block
LoginFails(op, message) ==
  /\ op \in auth.inFlight /\ op.kind = "login"
  /\ auth' = [auth EXCEPT !.error = MessageOr(message, "Failed to login"),
                          !.loading = FALSE,
                          !.inFlight = @ \ {op},
                          !.resolved = Resolved(op, FALSE, "")]

\* logout() up to its await
logout ==
  /\ auth.calls < MaxAuthCalls
  /\ auth' = [auth EXCEPT !.loading = TRUE,
                          !.inFlight = @ \cup {Called("logout")},
                          !.calls = @ + 1]

\* signOut returns: set({ user: null, loading: false })
LogoutSucceeds(op) ==
  /\ op \in auth.inFlight /\ op.kind = "logout"
  /\ auth' = [auth EXCEPT !.user = "", !.loading = FALSE,
                          !.inFlight = @ \ {op},
                          !.resolved = Resolved(op, TRUE, "")]

\* signOut throws: the catch block
LogoutFails(op, message) ==
  /\ op \in auth.inFlight /\ op.kind = "logout"
  /\ auth' = [auth EXCEPT !.error = MessageOr(message, "Failed to logout"),
                          !.loading = FALSE,
                          !.inFlight = @ \ {op},
                          !.resolved = Resolved(op, FALSE, "")]

\* the promise of the initial getSession() resolves with the session's user
getSessionResolves(user) ==
  /\ auth.getSession
  /\ auth' = [auth EXCEPT !.user = user, !.loading = FALSE, !.getSession = FALSE]

\* the listener of onAuthStateChange is called with a session or with none
onAuthStateChange(user) ==
  /\ auth' = [auth EXCEPT !.user = user, !.loading = FALSE]

NextAuth ==
  \/ login /\ UNCHANGED toast /\ StoreFrame
  \/ (\E op \in auth.inFlight, user \in AuthUsers : LoginSucceeds(op, user))
       /\ UNCHANGED toast /\ StoreFrame
  \/ (\E op \in auth.inFlight, message \in AuthMessages : LoginFails(op, message))
       /\ UNCHANGED toast /\ StoreFrame
  \/ logout /\ UNCHANGED toast /\ StoreFrame
  \/ (\E op \in auth.inFlight : LogoutSucceeds(op)) /\ UNCHANGED toast /\ StoreFrame
  \/ (\E op \in auth.inFlight, message \in AuthMessages : LogoutFails(op, message))
       /\ UNCHANGED toast /\ StoreFrame
  \/ (\E user \in SessionUsers : getSessionResolves(user))
       /\ UNCHANGED toast /\ StoreFrame
  \/ (\E user \in SessionUsers : onAuthStateChange(user))
       /\ UNCHANGED toast /\ StoreFrame

(***************************************************************************)
(* Init: a freshly mounted AttendanceStep with its BulkImport              *)
(***************************************************************************)
Init ==
  /\ errors = <<>>
  /\ errorSections = <<>>
  /\ columnMappings = <<>>
  /\ showMappings = FALSE
  /\ csvData = <<>>
  /\ showPreview = FALSE
  /\ csvColumns = <<>>
  /\ rowValidations = <<>>
  /\ excludeAllInvalid = FALSE
  /\ originalRowValidations = <<>>
  /\ availableColumns \in
       {IF currentStep \in DOMAIN AVAILABLE_COLUMNS
        THEN AVAILABLE_COLUMNS[currentStep] ELSE <<>>, <<>>}
  /\ pending = <<>>
  /\ onImportData = <<>>
  /\ onImportRows = <<>>
  /\ cachedData = <<>>
  /\ error = NoError
  /\ lastOp = [op |-> "mount", index |-> 0, ok |-> TRUE, prev |-> "", args |-> <<>>]
  /\ uploads = <<>>
  /\ mappingOps = 0
  /\ onboarding = InitOnboarding
  /\ toast = InitToast
  /\ auth = InitAuth

(***************************************************************************)
(* handleFileUpload and the parser / reader callbacks  (BulkImport)        *)
(***************************************************************************)
\* setErrors(newErrors); updateErrorSections(newErrors) of a failed load
FailLoad(message) ==
  /\ errors' = <<PlainError("format", message)>>
  /\ errorSections' = updateErrorSections(<<PlainError("format", message)>>)

\* the synchronous part of handleFileUpload(file)
handleFileUpload(file) ==
  /\ uploads' = Append(uploads, file)
  /\ showMappings' = FALSE
  /\ showPreview' = FALSE
  /\ excludeAllInvalid' = FALSE
  /\ IF file.ext \in {"csv", "xlsx", "xls"}
     THEN /\ errors' = <<>>
          /\ errorSections' = <<>>
          /\ pending' = Append(pending, [file |-> file,
                                         columnMappings |-> columnMappings,
                                         upload |-> Len(uploads) + 1])
          /\ lastOp' = Op("handleFileUpload", Len(uploads) + 1, TRUE)
     ELSE /\ FailLoad("Invalid file type. Please upload a CSV or Excel file.")
          /\ pending' = pending
          /\ lastOp' = Op("handleFileUpload", Len(uploads) + 1, FALSE)
  /\ NoOnImport
  /\ UNCHANGED <<columnMappings, csvData, csvColumns, rowValidations,
                 originalRowValidations, availableColumns, attendanceVars,
                 mappingOps>>

\* the success path of complete / onload: the rows are matched and validated
LoadRows(rows, closureMappings) ==
  LET columns == ObjectKeys(rows[1])
      mappings == findBestColumnMatches(columns, availableColumns)
      validated == validateData(rows, closureMappings)
  IN  /\ csvColumns' = columns
      /\ columnMappings' = mappings
      /\ csvData' = rows
      /\ errors' = validated.errors
      /\ rowValidations' = validated.rowValidations
      /\ originalRowValidations' = validated.rowValidations
      /\ errorSections' = updateErrorSections(validated.errors)
      /\ showMappings' = TRUE

FailedLoadFrame ==
  UNCHANGED <<columnMappings, showMappings, csvData, csvColumns,
              rowValidations, originalRowValidations>>

CallbackFrame(k) ==
  /\ pending' = RemoveAt(pending, k)
  /\ NoOnImport
  /\ UNCHANGED <<showPreview, excludeAllInvalid, availableColumns,
                 attendanceVars, uploads, mappingOps>>

\* Papa.parse's complete callback of the k-th parse in flight
PapaComplete(k) ==
  /\ k \in DOMAIN pending
  /\ pending[k].file.ext = "csv"
  /\ pending[k].file.outcome = "rows"
  /\ IF pending[k].file.rows = <<>>
     THEN /\ FailLoad("CSV file is empty")
          /\ FailedLoadFrame
          /\ lastOp' = Op("PapaComplete", pending[k].upload, FALSE)
     ELSE /\ LoadRows(pending[k].file.rows, pending[k].columnMappings)
          /\ lastOp' = Op("PapaComplete", pending[k].upload, TRUE)
  /\ CallbackFrame(k)

\* Papa.parse's error callback
PapaError(k) ==
  /\ k \in DOMAIN pending
  /\ pending[k].file.ext = "csv"
  /\ pending[k].file.outcome # "rows"
  /\ FailLoad("Error parsing CSV")
  /\ FailedLoadFrame
  /\ lastOp' = Op("PapaError", pending[k].upload, FALSE)
  /\ CallbackFrame(k)

\* reader.onload: XLSX.read and sheet_to_json inside try / catch
ReaderOnload(k) ==
  /\ k \in DOMAIN pending
  /\ pending[k].file.ext \in {"xlsx", "xls"}
  /\ pending[k].file.outcome \in {"rows", "exception"}
  /\ IF pending[k].file.outcome = "exception"
     THEN /\ FailLoad("Error parsing Excel file")
          /\ FailedLoadFrame
          /\ lastOp' = Op("ReaderOnload", pending[k].upload, FALSE)
     ELSE IF pending[k].file.rows = <<>>
     THEN /\ FailLoad("Excel file is empty")
          /\ FailedLoadFrame
          /\ lastOp' = Op("ReaderOnload", pending[k].upload, FALSE)
     ELSE /\ LoadRows(pending[k].file.rows, pending[k].columnMappings)
          /\ lastOp' = Op("ReaderOnload", pending[k].upload, TRUE)
  /\ CallbackFrame(k)

\* reader.onerror
ReaderOnerror(k) ==
  /\ k \in DOMAIN pending
  /\ pending[k].file.ext \in {"xlsx", "xls"}
  /\ pending[k].file.outcome = "readerror"
  /\ FailLoad("Error reading file")
  /\ FailedLoadFrame
  /\ lastOp' = Op("ReaderOnerror", pending[k].upload, FALSE)
  /\ CallbackFrame(k)

(***************************************************************************)
(* The mapping panel  (BulkImport handlers, ColumnMapper)                  *)
(***************************************************************************)
\* {showMappings && columnMappings.length > 0 && <ColumnMapper .../>}
ColumnMapperRendered == showMappings /\ columnMappings # <<>>

\* the positions the model edits or deletes: the first and the last
IndexChoices == {i \in DOMAIN columnMappings : i = 1 \/ i = Len(columnMappings)}

\* the source columns and target fields the model picks in the edit row
EditSources == {"Date", "Notes"}
EditTargets == {"record_date", "nickname"}

\* what the two selects of the edit row can hold: the mapping's own values
\* (handleEditMapping copies them) or an option picked from the list
EditCsvChoices(index) ==
  {columnMappings[index].csvColumn} \cup (EditSources \cap Range(csvColumns))

EditDbChoices(index) ==
  {columnMappings[index].dbColumn} \cup (EditTargets \cap Range(availableColumns))

\* similarity: 1, in the hundredths the model counts similarity in
FullSimilarity == 100

FirstOr(seq, default) == IF seq = <<>> THEN default ELSE seq[1]

\* newMapping with the last source column in place of the first
newMappingLastColumn ==
  [csvColumn |-> IF csvColumns = <<>> THEN "" ELSE csvColumns[Len(csvColumns)],
   dbColumn |-> FirstOr(availableColumns, ""),
   similarity |-> FullSimilarity, matched |-> TRUE, manual |-> TRUE]

\* const newMapping of handleAddMapping
newMapping ==
  [csvColumn |-> FirstOr(csvColumns, ""),
   dbColumn |-> FirstOr(availableColumns, ""),
   similarity |-> FullSimilarity, matched |-> TRUE, manual |-> TRUE]

handleAddMapping ==
  /\ ColumnMapperRendered
  /\ mappingOps' = mappingOps + 1
  /\ columnMappings' = Append(columnMappings, newMapping)
  /\ lastOp' = Op("handleAddMapping", Len(columnMappings) + 1, TRUE)
  /\ NoOnImport
  /\ UNCHANGED <<errors, errorSections, showMappings, csvData, showPreview,
                 csvColumns, rowValidations, excludeAllInvalid,
                 originalRowValidations, availableColumns, pending,
                 attendanceVars, uploads>>

\* updatedMappings that leaves manual and similarity of the mapping alone
updatedMappingsKeepScore(index, csvColumn, dbColumn) ==
  [i \in DOMAIN columnMappings |->
     IF i = index
     THEN [columnMappings[i] EXCEPT !.csvColumn = csvColumn,
                                    !.dbColumn = dbColumn, !.matched = TRUE]
     ELSE columnMappings[i]]

\* columnMappings.map((mapping, i) => i === index ? {...} : mapping)
updatedMappings(index, csvColumn, dbColumn) ==
  [i \in DOMAIN columnMappings |->
     IF i = index
     THEN [csvColumn |-> csvColumn, dbColumn |-> dbColumn, similarity |-> FullSimilarity,
           matched |-> TRUE, manual |-> TRUE]
     ELSE columnMappings[i]]

\* the columnMappings that validateData reads when handleSaveMapping calls
\* it: the const of the render the handler was created in
SaveMappingValidates(index, csvColumn, dbColumn) == columnMappings

\* BulkImport.handleSaveMapping(index, csvColumn, dbColumn), the state it writes
SaveMappingEffect(index, csvColumn, dbColumn) ==
  IF ~ SeqIncludes(availableColumns, dbColumn)
  THEN /\ errors' = <<PlainError("mapping", "Invalid column mapping")>>
       /\ UNCHANGED <<errorSections, columnMappings, rowValidations,
                      originalRowValidations>>
  ELSE LET validated ==
             validateData(csvData, SaveMappingValidates(index, csvColumn, dbColumn))
       IN  /\ columnMappings' = updatedMappings(index, csvColumn, dbColumn)
           /\ errors' = validated.errors
           /\ rowValidations' = validated.rowValidations
           /\ originalRowValidations' = validated.rowValidations
           /\ errorSections' = updateErrorSections(validated.errors)

MappingEditFrame ==
  /\ mappingOps' = mappingOps + 1
  /\ NoOnImport
  /\ UNCHANGED <<showMappings, csvData, showPreview, csvColumns,
                 excludeAllInvalid, availableColumns, pending,
                 attendanceVars, uploads>>

\* editMapping: the onSaveMapping prop called with (index, csvColumn, dbColumn)
handleSaveMapping(index, csvColumn, dbColumn) ==
  /\ ColumnMapperRendered
  /\ index \in IndexChoices
  /\ SaveMappingEffect(index, csvColumn, dbColumn)
  /\ lastOp' = OpWith("handleSaveMapping", index,
                      SeqIncludes(availableColumns, dbColumn), csvColumn, dbColumn)
  /\ MappingEditFrame

\* ColumnMapper.handleSaveMapping(index) with the edit row holding
\* editCsvColumn and editDbColumn: the values handleEditMapping copied from
\* the mapping, or the ones picked in the two selects
ColumnMapperSave(index, editCsvColumn, editDbColumn) ==
  /\ ColumnMapperRendered
  /\ index \in IndexChoices
  /\ editCsvColumn \in EditCsvChoices(index)
  /\ editDbColumn \in EditDbChoices(index)
  /\ IF ~ SeqIncludes(availableColumns, editDbColumn)
     THEN /\ UNCHANGED <<errors, errorSections, columnMappings, rowValidations,
                         originalRowValidations>>
          /\ lastOp' = OpWith("ColumnMapperSave", index, FALSE,
                              editCsvColumn, editDbColumn)
     ELSE /\ SaveMappingEffect(index, editCsvColumn, editDbColumn)
          /\ lastOp' = OpWith("ColumnMapperSave", index, TRUE,
                              editCsvColumn, editDbColumn)
  /\ MappingEditFrame

handleDeleteMapping(index) ==
  /\ ColumnMapperRendered
  /\ index \in IndexChoices
  /\ mappingOps' = mappingOps + 1
  /\ columnMappings' = RemoveAt(columnMappings, index)
  /\ lastOp' = Op("handleDeleteMapping", index, TRUE)
  /\ NoOnImport
  /\ UNCHANGED <<errors, errorSections, showMappings, csvData, showPreview,
                 csvColumns, rowValidations, excludeAllInvalid,
                 originalRowValidations, availableColumns, pending,
                 attendanceVars, uploads>>

\* missingRequired cut to its first field
firstMissingRequired(mappings) ==
  LET missing == SelectSeq(requiredFields,
                           LAMBDA field :
                             ~ \E i \in DOMAIN mappings :
                                 mappings[i].dbColumn = field /\ mappings[i].matched)
  IN  Slice(missing, 1)

\* requiredFields.filter(field => !mappings.some(m => m.dbColumn === field && m.matched))
missingRequired(mappings) ==
  SelectSeq(requiredFields,
            LAMBDA field :
              ~ \E i \in DOMAIN mappings :
                  mappings[i].dbColumn = field /\ mappings[i].matched)

\* `Missing required columns: ${missingRequired.join(', ')}`: the fields the
\* message names are kept in `missing`
MissingColumnsError(missing) ==
  [type |-> "mapping", field |-> "", row |-> 0, value |-> Undefined,
   message |-> "Missing required columns", missing |-> missing]

validateRequiredColumns(mappings) ==
  IF missingRequired(mappings) # <<>>
  THEN <<MissingColumnsError(missingRequired(mappings))>>
  ELSE <<>>

handleShowPreview ==
  /\ ColumnMapperRendered
  /\ LET validationErrors == validateRequiredColumns(columnMappings)
     IN  IF validationErrors # <<>>
         THEN /\ errors' = validationErrors
              /\ errorSections' = updateErrorSections(validationErrors)
              /\ showPreview' = showPreview
              /\ lastOp' = Op("handleShowPreview", 0, FALSE)
         ELSE /\ showPreview' = TRUE
              /\ UNCHANGED <<errors, errorSections>>
              /\ lastOp' = Op("handleShowPreview", 0, TRUE)
  /\ NoOnImport
  /\ UNCHANGED <<columnMappings, showMappings, csvData, csvColumns,
                 rowValidations, excludeAllInvalid, originalRowValidations,
                 availableColumns, pending, attendanceVars, uploads,
                 mappingOps>>

\* ValidationErrors' onClearErrors
onClearErrors ==
  /\ errors # <<>> \/ errorSections # <<>>
  /\ errors' = <<>>
  /\ errorSections' = <<>>
  /\ lastOp' = Op("onClearErrors", 0, TRUE)
  /\ NoOnImport
  /\ UNCHANGED <<columnMappings, showMappings, csvData, showPreview,
                 csvColumns, rowValidations, excludeAllInvalid,
                 originalRowValidations, availableColumns, pending,
                 attendanceVars, uploads, mappingOps>>

(***************************************************************************)
(* The preview panel  (BulkImport handlers passed to DataPreview)          *)
(***************************************************************************)
PreviewFrame ==
  UNCHANGED <<errors, errorSections, columnMappings, showMappings, csvData,
              showPreview, csvColumns, availableColumns, pending, uploads,
              mappingOps>>

\* flipExclusion that can only exclude
excludeRow(rows, rowIndex) ==
  [i \in DOMAIN rows |->
     IF rows[i].rowIndex = rowIndex
     THEN [rows[i] EXCEPT !.excluded = TRUE]
     ELSE rows[i]]

\* prev.map(row => row.rowIndex === rowIndex ? {...row, excluded: !row.excluded} : row)
flipExclusion(rows, rowIndex) ==
  [i \in DOMAIN rows |->
     IF rows[i].rowIndex = rowIndex
     THEN [rows[i] EXCEPT !.excluded = ~ rows[i].excluded]
     ELSE rows[i]]

toggleRowExclusion(rowIndex) ==
  /\ showPreview
  /\ rowIndex \in 0..(Len(csvData) - 1)
  /\ rowValidations' = flipExclusion(rowValidations, rowIndex)
  /\ lastOp' = Op("toggleRowExclusion", rowIndex, TRUE)
  /\ NoOnImport
  /\ UNCHANGED <<excludeAllInvalid, originalRowValidations, attendanceVars>>
  /\ PreviewFrame

\* excludeInvalid that forgets the exclusions made by hand
excludeExactlyInvalid(rows) ==
  [i \in DOMAIN rows |-> [rows[i] EXCEPT !.excluded = Len(rows[i].errors) > 0]]

\* prev.map(row => ({...row, excluded: row.errors.length > 0 ? true : row.excluded}))
excludeInvalid(rows) ==
  [i \in DOMAIN rows |->
     [rows[i] EXCEPT
        !.excluded = IF Len(rows[i].errors) > 0 THEN TRUE ELSE rows[i].excluded]]

\* restoreExclusions that includes every row again
includeAll(original, current) ==
  [i \in DOMAIN current |-> [current[i] EXCEPT !.excluded = FALSE]]

\* restoreExclusions that keeps the row states of the moment
keepCurrent(original, current) == current

\* setRowValidations(originalRowValidations): the snapshot, whatever the
\* row states are now
restoreExclusions(original, current) == original

toggleExcludeAllInvalid ==
  /\ showPreview
  /\ LET newValue == ~ excludeAllInvalid
     IN  /\ excludeAllInvalid' = newValue
         /\ IF newValue
            THEN /\ originalRowValidations' = rowValidations
                 /\ rowValidations' = excludeInvalid(rowValidations)
            ELSE /\ rowValidations' =
                      restoreExclusions(originalRowValidations, rowValidations)
                 /\ UNCHANGED originalRowValidations
         /\ lastOp' = Op("toggleExcludeAllInvalid", 0, newValue)
  /\ NoOnImport
  /\ UNCHANGED <<attendanceVars>>
  /\ PreviewFrame

(***************************************************************************)
(* AttendanceStep: the rows handleBulkImport receives                      *)
(***************************************************************************)
\* A row of `raw` is a JavaScript array (cells: 0-based index -> value, an
\* index outside the domain is a hole; length) or a plain object (fields:
\* key -> value), as BulkImport's handleImport builds them.
ArrayRow(length, cells) ==
  [isArray |-> TRUE, length |-> length, cells |-> cells, fields |-> <<>>]

ObjectRow(fields) ==
  [isArray |-> FALSE, length |-> 0, cells |-> <<>>, fields |-> fields]

\* row[k] for a number k: an object built by handleImport has the target
\* fields as its keys and no numeric key
At(row, k) ==
  IF row.isArray /\ k \in DOMAIN row.cells THEN row.cells[k] ELSE Undefined

\* raw[i] (0-based), undefined past the end
RawAt(raw, i) == IF i + 1 \in DOMAIN raw THEN raw[i + 1] ELSE ArrayRow(0, <<>>)

\* raw[i] && raw[i][0] === text
FirstCellIs(raw, i, text) ==
  i + 1 \in DOMAIN raw /\ At(raw[i + 1], 0) = Str(text)

\* String(value)
JSString(v) ==
  CASE v.t = "undefined" -> Chars("undefined")
    [] v.t = "null" -> Chars("null")
    [] OTHER -> Chars(v.s)

\* the props of AttendanceStep
students ==
  <<[student_id |-> "u1", school_student_id |-> "S1"],
    [student_id |-> "u2", school_student_id |-> "S2"]>>

schoolId == "school-1"

\* watch('attendance_year'): the form's default value
FormAttendanceYear == <<"f", "o", "r", "m">>

(***************************************************************************)
(* AttendanceStep: the steps both layouts share (the code repeats them     *)
(* word for word in processLinkItFormat and in processStandardFormat)      *)
(***************************************************************************)
\* yearCell.match(/(\d{4}-\d{2,4})/): the first match, greedy
YearMatch(cs) ==
  LET starts == {k \in 1..(Len(cs) - 6) :
                   /\ \A i \in k..(k + 3) : cs[i] \in Digits
                   /\ cs[k + 4] = "-"
                   /\ cs[k + 5] \in Digits
                   /\ cs[k + 6] \in Digits}
      k == CHOOSE x \in starts : \A y \in starts : x <= y
      more == IF k + 7 <= Len(cs) /\ cs[k + 7] \in Digits
              THEN IF k + 8 <= Len(cs) /\ cs[k + 8] \in Digits THEN 2 ELSE 1
              ELSE 0
  IN  IF starts = {} THEN <<>> ELSE SubSeq(cs, k, k + 6 + more)

\* if (yearMatch) attendanceYearFromFile = yearMatch[1]
YearOrForm(yearMatch) ==
  IF yearMatch = <<>> THEN FormAttendanceYear ELSE yearMatch

\* attendanceYearFromFile, from the cell raw[1][1]
YearOfCell(cell) ==
  IF Truthy(cell) THEN YearOrForm(YearMatch(JSString(cell)))
  ELSE FormAttendanceYear

attendanceYear(raw) ==
  IF Len(raw) > 1 THEN YearOfCell(At(raw[2], 1)) ELSE FormAttendanceYear

\* students.find(s => s.school_student_id === String(studentId)): the
\* position of the student, 0 when there is none
FindStudent(studentId) ==
  LET hits == {i \in DOMAIN students :
                 Chars(students[i].school_student_id) = JSString(studentId)}
  IN  IF hits = {} THEN 0 ELSE CHOOSE i \in hits : \A j \in hits : i <= j

\* String(x).split(/[\/\-]/)
RECURSIVE SplitDate(_)
SplitDate(cs) ==
  LET seps == {i \in DOMAIN cs : cs[i] \in {"/", "-"}}
      k == CHOOSE x \in seps : \A y \in seps : x <= y
  IN  IF seps = {} THEN <<cs>>
      ELSE <<SubSeq(cs, 1, k - 1)>> \o SplitDate(SubSeq(cs, k + 1, Len(cs)))

\* part.padStart(2, '0')
PadStart2(cs) ==
  CASE Len(cs) = 0 -> <<"0", "0">>
    [] Len(cs) = 1 -> <<"0">> \o cs
    [] OTHER -> cs

DigitValue(c) ==
  CASE c = "0" -> 0 [] c = "1" -> 1 [] c = "2" -> 2 [] c = "3" -> 3
    [] c = "4" -> 4 [] c = "5" -> 5 [] c = "6" -> 6 [] c = "7" -> 7
    [] c = "8" -> 8 [] c = "9" -> 9

\* the number two digit characters spell, -1 when they are no two digits
TwoDigits(cs) ==
  IF Len(cs) = 2 /\ cs[1] \in Digits /\ cs[2] \in Digits
  THEN 10 * DigitValue(cs[1]) + DigitValue(cs[2])
  ELSE -1

InvalidDate == [valid |-> FALSE, day |-> <<>>]

\* new Date(value) for the value v with String(v) = cs, split into parts:
\* whether the date is valid and the day toISOString() gives.  A number is a
\* time in milliseconds (the model's numbers are below one day).  A string
\* in the form YYYY-MM-DD is read as UTC: valid with a month in 01..12 and a
\* day in 01..28, invalid with a month outside 01..12 or a day outside
\* 01..31.  A string with no digit is invalid, and so is MM/DD/YYYY with a
\* month above 12.  Any other text (a day 29..31, a free-form date) depends
\* on the month or on the engine and is outside this operator.
NativeDateOf(v, cs, parts) ==
  CASE v.t = "number" -> [valid |-> TRUE, day |-> Chars("1970-01-01")]
    [] v.t = "string" /\ dateRegex(cs)
         /\ TwoDigits(parts[2]) \in 1..12 /\ TwoDigits(parts[3]) \in 1..28 ->
         [valid |-> TRUE, day |-> cs]
    [] v.t = "string" /\ dateRegex(cs)
         /\ (TwoDigits(parts[2]) \notin 1..12 \/ TwoDigits(parts[3]) \notin 1..31) ->
         InvalidDate
    [] v.t = "string" /\ ~ dateRegex(cs)
         /\ (\A i \in DOMAIN cs : cs[i] \notin Digits) -> InvalidDate
    [] v.t = "string" /\ ~ dateRegex(cs) /\ Len(parts) = 3
         /\ TwoDigits(parts[1]) > 12 -> InvalidDate

\* the try block that computes recordDate, from new Date(resultDate) and
\* dateParts: [ok, recordDate]
RecordDateFrom(native, dateParts) ==
  IF native.valid THEN [ok |-> TRUE, recordDate |-> native.day]
  ELSE IF Len(dateParts) = 3
  THEN IF Len(dateParts[1]) = 4
       THEN [ok |-> TRUE,
             recordDate |-> dateParts[1] \o <<"-">> \o PadStart2(dateParts[2])
                            \o <<"-">> \o PadStart2(dateParts[3])]
       ELSE [ok |-> TRUE,
             recordDate |-> dateParts[3] \o <<"-">> \o PadStart2(dateParts[1])
                            \o <<"-">> \o PadStart2(dateParts[2])]
  ELSE [ok |-> FALSE, recordDate |-> <<>>]

DatePartsOf(resultDate, cs, parts) ==
  RecordDateFrom(NativeDateOf(resultDate, cs, parts), parts)

DateTextOf(resultDate, cs) == DatePartsOf(resultDate, cs, SplitDate(cs))

ParseRecordDate(resultDate) == DateTextOf(resultDate, JSString(resultDate))

\* Number(value), as the text of the number: the model's numeric strings
\* are plain decimal literals, which Number() reads unchanged once trimmed
NumberOf(v) ==
  CASE v.t = "number" -> Chars(v.s)
    [] v.t = "undefined" -> <<"N", "a", "N">>
    [] v.t = "null" -> <<"0">>
    [] v.t = "string" /\ TrimIsEmpty(v) -> <<"0">>
    [] v.t = "string" /\ ~ TrimIsEmpty(v) /\ NumberIsNaN(v) -> <<"N", "a", "N">>
    [] OTHER -> Trim(Chars(v.s))

\* The cells one data row is read from, in this order: the student id, the
\* result date, the six totals, the five optional rates.
StudentIdCell == 1
ResultDateCell == 2
RequiredCells == 2..8
TotalCells == 3..8
RateCells == 9..13

\* extraData: the rates that are neither null nor undefined, as numbers
\* (<<>> for a key that is not set)
ExtraData(values) ==
  [n \in RateCells |->
     IF values[n].t \in {"null", "undefined"} THEN <<>> ELSE NumberOf(values[n])]

\* what one data row (1-based row number rowNumber = i + 1) adds: an entry
\* of importErrors, a record of processed, or nothing (kind "skip")
ImportError(rowNumber, message, value) ==
  [kind |-> "error", rowNumber |-> rowNumber, message |-> message,
   value |-> value, record |-> <<>>]

Processed(rowNumber, record) ==
  [kind |-> "record", rowNumber |-> rowNumber, message |-> "",
   value |-> Undefined, record |-> record]

Skipped(rowNumber) ==
  [kind |-> "skip", rowNumber |-> rowNumber, message |-> "",
   value |-> Undefined, record |-> <<>>]

\* the record processed.push() adds
AttendanceRecord(student, recordDate, values, year) ==
  [student_id |-> student.student_id,
   school_id |-> schoolId,
   record_date |-> recordDate,
   totals |-> [n \in TotalCells |-> NumberOf(values[n])],
   attendance_year |-> year,
   extra_data |-> ExtraData(values)]

\* the end of the loop body, from the try block on
DatedOutcome(rowNumber, values, year, found, date) ==
  IF ~ date.ok
  THEN ImportError(rowNumber, "Invalid date format", values[ResultDateCell])
  ELSE Processed(rowNumber,
                 AttendanceRecord(students[found], date.recordDate, values, year))

\* the loop body from the student lookup on
FoundOutcome(rowNumber, values, year, found) ==
  IF found = 0
  THEN ImportError(rowNumber, "Student not found", values[StudentIdCell])
  ELSE IF \E n \in RequiredCells : ~ Truthy(values[n])
  THEN ImportError(rowNumber, "Missing required attendance data", Undefined)
  ELSE DatedOutcome(rowNumber, values, year, found,
                    ParseRecordDate(values[ResultDateCell]))

RowOutcome(rowNumber, values, year) ==
  IF ~ Truthy(values[StudentIdCell])
  THEN ImportError(rowNumber, "Missing student ID", Undefined)
  ELSE FoundOutcome(rowNumber, values, year, FindStudent(values[StudentIdCell]))

\* importErrors.slice(0, 10): the number of entries the step shows
ErrorDisplayLimit == 10

\* FinishWith that commits the rows without an error next to the failing ones
FinishWithPartialCommit(importErrors, processed) ==
  [cachedData |-> cachedData \o processed,
   error |-> IF Len(importErrors) > 0
             THEN [kind |-> "rows",
                   entries |-> Slice(importErrors, ErrorDisplayLimit)]
             ELSE NoError,
   updated |-> TRUE]

\* the end of both layouts, for importErrors and processed in row order:
\* [cachedData, error, updated] (updated: onUpdate was called)
FinishWith(importErrors, processed) ==
  IF Len(importErrors) > 0
  THEN [cachedData |-> cachedData,
        error |-> [kind |-> "rows",
                   entries |-> Slice(importErrors, ErrorDisplayLimit)],
        updated |-> FALSE]
  ELSE [cachedData |-> cachedData \o processed, error |-> NoError,
        updated |-> TRUE]

RecordsOf(outcomes) == [i \in DOMAIN outcomes |-> outcomes[i].record]

FinishImport(outcomes) ==
  FinishWith(SelectSeq(outcomes, LAMBDA o : o.kind = "error"),
             RecordsOf(SelectSeq(outcomes, LAMBDA o : o.kind = "record")))

(***************************************************************************)
(* AttendanceStep.processLinkItFormat                                      *)
(***************************************************************************)
\* the loop's `continue` for a row that is no array or has no first cell
SkippedRow(row) == ~ row.isArray \/ ~ Truthy(At(row, 0))

\* the columns processLinkItFormat reads, in the order of the cells above
LinkItColumns == <<2, 19, 22, 23, 24, 25, 26, 27, 21, 32, 43, 54, 65>>

LinkItValues(row) == [n \in DOMAIN LinkItColumns |-> At(row, LinkItColumns[n])]

\* the first data row of the LinkIt layout: for (let i = 8; ...)
LinkItFirstRow == 8

LinkItOutcome(row, rowNumber, year) ==
  IF SkippedRow(row) THEN Skipped(rowNumber)
  ELSE RowOutcome(rowNumber, LinkItValues(row), year)

LinkItOutcomes(raw, year) ==
  [k \in 1..(IF Len(raw) > LinkItFirstRow THEN Len(raw) - LinkItFirstRow ELSE 0) |->
     LinkItOutcome(raw[LinkItFirstRow + k], LinkItFirstRow + k, year)]

processLinkItFormat(raw) == FinishImport(LinkItOutcomes(raw, attendanceYear(raw)))

(***************************************************************************)
(* AttendanceStep.processStandardFormat                                    *)
(***************************************************************************)
\* AVAILABLE_COLUMNS.attendance of AttendanceStep: dbColumn and its headers
AttendanceColumns ==
  <<[dbColumn |-> "school_student_id",
     csvColumn |-> <<"school student id", "id", "student id", "studentid">>],
    [dbColumn |-> "record_date",
     csvColumn |-> <<"record date", "result date", "date">>],
    [dbColumn |-> "total_days_present",
     csvColumn |-> <<"total days present", "days present">>],
    [dbColumn |-> "total_days_possible",
     csvColumn |-> <<"total days possible", "days possible">>],
    [dbColumn |-> "fy_absences_total",
     csvColumn |-> <<"fy absences (total days)", "total absences">>],
    [dbColumn |-> "fy_absences_excused",
     csvColumn |-> <<"fy absences (excused days)", "excused absences">>],
    [dbColumn |-> "fy_absences_unexcused",
     csvColumn |-> <<"fy absences (unexcused days)", "unexcused absences">>],
    [dbColumn |-> "fy_tardies_total",
     csvColumn |-> <<"fy tardies (total days)", "total tardies">>],
    [dbColumn |-> "daily_attendance_rate",
     csvColumn |-> <<"daily attendance rate">>],
    [dbColumn |-> "mp1_attendance_rate",
     csvColumn |-> <<"mp1 (daily attendance rate)", "mp1 attendance rate">>],
    [dbColumn |-> "mp2_attendance_rate",
     csvColumn |-> <<"mp2 (daily attendance rate)", "mp2 attendance rate">>],
    [dbColumn |-> "mp3_attendance_rate",
     csvColumn |-> <<"mp3 (daily attendance rate)", "mp3 attendance rate">>],
    [dbColumn |-> "mp4_attendance_rate",
     csvColumn |-> <<"mp4 (daily attendance rate)", "mp4 attendance rate">>]>>

\* the names getValue is asked for, cell by cell, in the order of the || chain
StandardNames ==
  <<<<"school_student_id", "ID", "Student ID", "StudentID">>,
    <<"record_date", "Result Date", "Date">>,
    <<"total_days_present", "Total Days Present", "Days Present">>,
    <<"total_days_possible", "Total Days Possible", "Days Possible">>,
    <<"fy_absences_total", "FY Absences (Total Days)", "Total Absences">>,
    <<"fy_absences_excused", "FY Absences (Excused Days)", "Excused Absences">>,
    <<"fy_absences_unexcused", "FY Absences (Unexcused Days)", "Unexcused Absences">>,
    <<"fy_tardies_total", "FY Tardies (Total Days)", "Total Tardies">>,
    <<"daily_attendance_rate", "Daily Attendance Rate">>,
    <<"mp1_attendance_rate", "MP1 (Daily Attendance Rate)">>,
    <<"mp2_attendance_rate", "MP2 (Daily Attendance Rate)">>,
    <<"mp3_attendance_rate", "MP3 (Daily Attendance Rate)">>,
    <<"mp4_attendance_rate", "MP4 (Daily Attendance Rate)">>>>

\* the rows the header search looks at: i < Math.min(10, raw.length)
HeaderSearchLimit == 10

HeaderSearchRows(raw) ==
  0..((IF Len(raw) < HeaderSearchLimit THEN Len(raw) ELSE HeaderSearchLimit) - 1)

\* the first search: raw[i] && raw[i][0] === "#"
HashRows(raw) == {i \in HeaderSearchRows(raw) : FirstCellIs(raw, i, "#")}

\* the alternative search of the attendance report format
ReportRows(raw) ==
  {i \in HeaderSearchRows(raw) :
     /\ raw[i + 1].length > 20
     /\ Includes(ToLowerCase(JSString(At(raw[i + 1], 2))), Chars("id"))
     /\ Includes(ToLowerCase(JSString(At(raw[i + 1], 19))), Chars("result date"))}

FirstOf(hash, report) ==
  IF hash # {} THEN Least(hash)
  ELSE IF report # {} THEN Least(report)
  ELSE -1

\* headerRowIndex (0-based), -1 when neither search finds a header row
headerRowIndex(raw) == FirstOf(HashRows(raw), ReportRows(raw))

\* csvHeader.toLowerCase() throws a TypeError on a header cell that is no
\* string (forEach skips the holes of the array)
HeadersThrow(headers) ==
  \E k \in DOMAIN headers.cells : headers.cells[k].t # "string"

\* header.toLowerCase().trim() of every header cell, by index
NormalizedHeaders(headers) ==
  [k \in DOMAIN headers.cells |-> Trim(ToLowerCase(Chars(headers.cells[k].s)))]

\* for (const ac of availableColumns) if (ac.csvColumn.includes(h)) ...: the
\* dbColumn of the first entry that lists the normalized header, "" if none
MatchedColumn(normalizedHeader) ==
  LET listing == {a \in DOMAIN AttendanceColumns :
                    \E j \in DOMAIN AttendanceColumns[a].csvColumn :
                      Chars(AttendanceColumns[a].csvColumn[j]) = normalizedHeader}
  IN  IF listing = {} THEN "" ELSE AttendanceColumns[Least(listing)].dbColumn

\* columnMatches.find(m => m.dbColumn === columnName): the index of the
\* header of the first match for columnName, -1 when there is none
bestMatch(normalized, columnName) ==
  LET hits == {k \in DOMAIN normalized : MatchedColumn(normalized[k]) = columnName}
  IN  IF hits = {} THEN -1 ELSE Least(hits)

\* columnMap[key]: the last index whose header is truthy and whose trimmed
\* lower-case text is key, -1 for undefined
columnMap(headers, normalized, key) ==
  LET hits == {k \in DOMAIN normalized : Truthy(headers.cells[k]) /\ normalized[k] = key}
  IN  IF hits = {} THEN -1 ELSE Greatest(hits)

\* columnMap[bestMatch.csvColumn.toLowerCase()], -1 without a best match
ViaBestMatch(headers, normalized, best) ==
  IF best = -1 THEN -1
  ELSE columnMap(headers, normalized, ToLowerCase(Chars(headers.cells[best].s)))

CellOr(row, exact, viaBest) ==
  IF exact # -1 THEN At(row, exact)
  ELSE IF viaBest # -1 THEN At(row, viaBest)
  ELSE Null

getValue(headers, normalized, row, columnName) ==
  CellOr(row,
         columnMap(headers, normalized, ToLowerCase(Chars(columnName))),
         ViaBestMatch(headers, normalized, bestMatch(normalized, columnName)))

\* a || b || ... over the values in order
RECURSIVE FirstTruthy(_)
FirstTruthy(values) ==
  IF Len(values) = 1 \/ Truthy(Head(values)) THEN Head(values)
  ELSE FirstTruthy(Tail(values))

StandardValues(headers, normalized, row) ==
  [n \in DOMAIN StandardNames |->
     FirstTruthy([k \in DOMAIN StandardNames[n] |->
                    getValue(headers, normalized, row, StandardNames[n][k])])]

StandardOutcome(headers, normalized, row, rowNumber, year) ==
  IF SkippedRow(row) THEN Skipped(rowNumber)
  ELSE RowOutcome(rowNumber, StandardValues(headers, normalized, row), year)

StandardOutcomes(raw, h, normalized, year) ==
  [k \in 1..(Len(raw) - h - 1) |->
     StandardOutcome(raw[h + 1], normalized, raw[h + 1 + k], h + 1 + k, year)]

NoImport(kind) ==
  [cachedData |-> cachedData, error |-> [kind |-> kind, entries |-> <<>>],
   updated |-> FALSE]

\* processStandardFormat(raw) once headerRowIndex is h; kind "thrown" when
\* it throws
StandardFrom(raw, h) ==
  IF h = -1
  THEN NoImport("Could not locate header row (looking for column \"#\" or attendance format)")
  ELSE IF raw[h + 1].length = 0
  THEN NoImport("Could not locate header row.")
  ELSE IF HeadersThrow(raw[h + 1]) THEN NoImport("thrown")
  ELSE FinishImport(StandardOutcomes(raw, h, NormalizedHeaders(raw[h + 1]),
                                     attendanceYear(raw)))

processStandardFormat(raw) == StandardFrom(raw, headerRowIndex(raw))

(***************************************************************************)
(* AttendanceStep.handleBulkImport                                         *)
(***************************************************************************)
\* isLinkItFormat that tests the first and the last anchor cell only
isLinkItFormatTwoAnchors(raw) ==
  /\ Len(raw) > 7
  /\ FirstCellIs(raw, 0, "Export Date")
  /\ FirstCellIs(raw, 7, "#")

isLinkItFormat(raw) ==
  /\ Len(raw) > 7
  /\ FirstCellIs(raw, 0, "Export Date")
  /\ FirstCellIs(raw, 2, "District")
  /\ FirstCellIs(raw, 7, "#")

\* Caught that lets the exception through
Rethrown(result) == result

\* catch (e) { setError(`Import failed: ${e.message}`) }
Caught(result) ==
  IF result.error.kind = "thrown"
  THEN [result EXCEPT !.error = [kind |-> "Import failed", entries |-> <<>>]]
  ELSE result

\* the result of handleBulkImport(raw): [cachedData, error, updated]
BulkImportResult(raw) ==
  Caught(IF isLinkItFormat(raw) THEN processLinkItFormat(raw)
         ELSE processStandardFormat(raw))

\* the state handleBulkImport leaves: setCachedData / setError
SetImportResult(name, index, result) ==
  /\ cachedData' = result.cachedData
  /\ error' = result.error
  /\ lastOp' = Op(name, index, result.updated)

(***************************************************************************)
(* BulkImport.handleImport, and the onImport prop it calls                 *)
(***************************************************************************)
\* keepRow without the excludeAllInvalid test
keepRowIgnoringBulk(index) ==
  IF index + 1 \in DOMAIN rowValidations
  THEN ~ rowValidations[index + 1].excluded
  ELSE TRUE

\* the filter of handleImport for the row at index (0-based):
\* !(rowValidation?.excluded || (excludeAllInvalid && rowValidation?.errors.length > 0))
keepRow(index) ==
  IF index + 1 \in DOMAIN rowValidations
  THEN ~ (\/ rowValidations[index + 1].excluded
          \/ (excludeAllInvalid /\ Len(rowValidations[index + 1].errors) > 0))
  ELSE TRUE

\* the indexes (0-based, ascending) of the rows the filter keeps
RECURSIVE keptFrom(_)
keptFrom(i) ==
  IF i >= Len(csvData) THEN <<>>
  ELSE (IF keepRow(i) THEN <<i>> ELSE <<>>) \o keptFrom(i + 1)

keptRows == keptFrom(0)

\* the positions of the matched mappings that write newRow[field]
writers(field) ==
  {i \in DOMAIN columnMappings :
     columnMappings[i].matched /\ columnMappings[i].dbColumn = field}

\* newRow in which the first matched mapping of a field decides its value
newRowFirstWins(row) ==
  [field \in {columnMappings[i].dbColumn :
               i \in {j \in DOMAIN columnMappings : columnMappings[j].matched}} |->
     Cell(row, columnMappings[Least(writers(field))].csvColumn)]

\* newRow of the map callback: columnMappings.forEach assigns in order, so
\* the last matched mapping of a field decides its value
newRow(row) ==
  [field \in {columnMappings[i].dbColumn :
               i \in {j \in DOMAIN columnMappings : columnMappings[j].matched}} |->
     Cell(row, columnMappings[Greatest(writers(field))].csvColumn)]

transform(kept) == [k \in DOMAIN kept |-> newRow(csvData[kept[k] + 1])]

ObjectRows(data) == [k \in DOMAIN data |-> ObjectRow(data[k])]

\* onImport(transformedData), with handleBulkImport as the onImport prop
onImport(kept, data) ==
  /\ onImportRows' = kept
  /\ onImportData' = data
  /\ SetImportResult("handleImport", 0, BulkImportResult(ObjectRows(data)))

ImportKept(kept) == onImport(kept, transform(kept))

handleImport ==
  /\ showPreview
  /\ ImportKept(keptRows)
  /\ UNCHANGED <<errors, errorSections, columnMappings, showMappings, csvData,
                 showPreview, csvColumns, rowValidations, excludeAllInvalid,
                 originalRowValidations, availableColumns, pending, uploads,
                 mappingOps>>

(***************************************************************************)
(* handleBulkImport called with the rows of a sheet (arrays of cells)      *)
(***************************************************************************)
\* the most records the accumulated list holds before an import
MaxRecords == 2

\* an array with the cells of seq at the indexes 0, 1, ...
Dense(seq) == ArrayRow(Len(seq), [k \in 0..(Len(seq) - 1) |-> seq[k + 1]])

EmptyRow == ArrayRow(0, <<>>)

\* the text of the cell that numbers a data row
NumText == <<"1", "2", "3", "4", "5", "6", "7", "8", "9", "10", "11", "12">>

StandardHeader ==
  Dense(<<Str("#"), Str(" Student ID "), Str("Date"), Str("Days Present"),
          Str("Days Possible"), Str("Total Absences"), Str("Excused Absences"),
          Str("Unexcused Absences"), Str("Total Tardies"),
          Str("Daily Attendance Rate")>>)

StandardRow(n, id, date, tardies) ==
  Dense(<<Num(NumText[n]), id, date, Num("170"), Num("180"), Num("10"),
          Num("6"), Num("4"), tardies, Num("94.4")>>)

\* a report whose header row is found by its "id" and "result date" cells
ReportHeader ==
  ArrayRow(28, (0 :> Str("No")) @@ (2 :> Str("Student ID"))
               @@ (19 :> Str("Result Date")) @@ (22 :> Str("Total Days Present"))
               @@ (23 :> Str("Total Days Possible"))
               @@ (24 :> Str("FY Absences (Total Days)"))
               @@ (25 :> Str("FY Absences (Excused Days)"))
               @@ (26 :> Str("FY Absences (Unexcused Days)"))
               @@ (27 :> Str("FY Tardies (Total Days)")))

LinkItRow(length, n, id, date, tardies) ==
  ArrayRow(length, (0 :> Num(NumText[n])) @@ (2 :> id) @@ (19 :> date)
                   @@ (21 :> Str("94.4")) @@ (22 :> Str("170"))
                   @@ (23 :> Str("180")) @@ (24 :> Str("10")) @@ (25 :> Str("6"))
                   @@ (26 :> Str("4")) @@ (27 :> tardies))

\* the eight rows above the data of a LinkIt! export
LinkItHead ==
  <<Dense(<<Str("Export Date"), Str("2024-06-30")>>),
    Dense(<<Str("School Year"), Str("SY 2024-25")>>),
    Dense(<<Str("District"), Str("D1")>>),
    EmptyRow, EmptyRow, EmptyRow, EmptyRow,
    Dense(<<Str("#"), Str("Name"), Str("ID")>>)>>

\* rows that each fail on the student id, numbered from..to
StandardFailing(from, to) ==
  [k \in 1..(to - from + 1) |->
     StandardRow(from + k - 1, Undefined, Str("2024-01-05"), Num("3"))]

LinkItFailing(from, to) ==
  [k \in 1..(to - from + 1) |->
     LinkItRow(28, from + k - 1, Str("S9"), Str("2024-01-05"), Str("3"))]

\* n rows above the header that hold a title only
TitleRows(n) == [k \in 1..n |-> Dense(<<Str("Attendance")>>)]

\* the sheets the model imports
RawInputs ==
  <<\* 1: standard header, two rows that import
    <<StandardHeader,
      StandardRow(1, Str("S1"), Str("2024-01-05"), Num("3")),
      StandardRow(2, Str("S2"), Str("13/45/2024"), Str(" 3 "))>>,
    \* 2: the year in raw[1][1], header further down, a skipped row
    <<Dense(<<Str("Attendance")>>),
      Dense(<<Str("Year"), Str("SY 2024-25")>>),
      StandardHeader,
      StandardRow(1, Str("S2"), Str("2024-02-28"), Num("1")),
      Dense(<<Str(""), Str("S9")>>)>>,
    \* 3: standard header, one row of each error and one row that imports
    <<StandardHeader,
      StandardRow(1, Str("S1"), Str("2024-01-05"), Num("3")),
      StandardRow(2, Undefined, Str("2024-01-05"), Num("3")),
      StandardRow(3, Str("S9"), Str("2024-01-05"), Num("3")),
      StandardRow(4, Str("S1"), Str("2024-01-05"), Num("0")),
      StandardRow(5, Str("S1"), Str("abc"), Num("3"))>>,
    \* 4: standard header, twelve failing rows after one that imports
    <<StandardHeader,
      StandardRow(1, Str("S1"), Str("2024-01-05"), Num("3"))>>
      \o StandardFailing(2, 12),
    \* 5: report header found by the alternative search
    <<ReportHeader,
      LinkItRow(28, 1, Str("S1"), Str("2024-13-40"), Str("3"))>>,
    \* 6: LinkIt! export, two rows that import and a skipped row
    LinkItHead
      \o <<LinkItRow(28, 1, Str("S1"), Str("2024-01-05"), Str("3")),
           ArrayRow(28, (2 :> Str("S9"))),
           LinkItRow(66, 3, Str("S2"), Num("86400"), Str("3"))>>,
    \* 7: LinkIt! export, a row missing a required cell among rows that import
    LinkItHead
      \o <<LinkItRow(28, 1, Str("S1"), Str("2024-01-05"), Str("3")),
           LinkItRow(28, 2, Str("S2"), Str("2024-01-05"), Str("")),
           LinkItRow(28, 3, Str("S2"), Str("2024-01-05"), Str("3"))>>,
    \* 8: LinkIt! export, eleven failing rows
    LinkItHead \o LinkItFailing(1, 11),
    \* 9: no header row
    <<Dense(<<Str("Student ID"), Str("Date")>>),
      Dense(<<Str("S1"), Str("2024-01-05")>>)>>,
    \* 10: a header cell that is a number
    <<Dense(<<Str("#"), Num("2024"), Str("Date")>>),
      Dense(<<Num("1"), Str("S1"), Str("2024-01-05")>>)>>,
    \* 11: an empty sheet
    <<>>,
    \* 12: a date of three segments, none of them four characters long
    <<StandardHeader,
      StandardRow(1, Str("S1"), Str("13/45/99"), Num("3"))>>,
    \* 13: the header row is the eleventh row of the sheet
    TitleRows(10)
      \o <<StandardHeader,
           StandardRow(1, Str("S1"), Str("2024-01-05"), Num("3"))>>,
    \* 14: a LinkIt! export without its "District" row
    <<LinkItHead[1], LinkItHead[2], Dense(<<Str("School Year"), Str("D1")>>)>>
      \o SubSeq(LinkItHead, 4, 8)
      \o <<LinkItRow(28, 1, Str("S1"), Str("2024-01-05"), Str("3"))>>>>

\* handleBulkImport(raw) with raw = RawInputs[n]
handleBulkImport(n) ==
  /\ Len(cachedData) <= MaxRecords
  /\ SetImportResult("handleBulkImport", n, BulkImportResult(RawInputs[n]))
  /\ UNCHANGED <<sessionVars, uploads, mappingOps, onboarding, storeVars>>

NextAttendance == \E n \in DOMAIN RawInputs : handleBulkImport(n)

SpecAttendance == Init /\ [][NextAttendance]_vars

\* a step of the wizard: the import session inside it stays as it is
NextSubmit ==
  \/ \E u \in UpdateChoices :
       onUpdate(u.field, u.value) /\ UNCHANGED <<sessionVars, attendanceVars, historyVars, storeVars>>
  \/ handleFinalSubmit /\ UNCHANGED <<sessionVars, attendanceVars, historyVars, storeVars>>
  \/ InsertSucceeds /\ UNCHANGED <<sessionVars, attendanceVars, historyVars, storeVars>>
  \/ InsertFails /\ UNCHANGED <<sessionVars, attendanceVars, historyVars, storeVars>>

SpecSubmit == Init /\ [][NextSubmit]_vars

\* the field of onboardingData that the step on screen updates ("" on the
\* review step)
renderStepContent ==
  CASE onboarding.currentStep = "enrollment" -> "enrollments"
    [] onboarding.currentStep = "attendance" -> "attendanceRecords"
    [] onboarding.currentStep = "assessments" -> "assessmentRecords"
    [] onboarding.currentStep = "review" -> ""
    [] OTHER -> onboarding.currentStep

\* the wizard with its navigation: a step's form is on screen on that step
\* only, Complete Setup on the review step only
WizardFrame == UNCHANGED <<sessionVars, attendanceVars, historyVars, storeVars>>

InsertReturns == (InsertSucceeds \/ InsertFails) /\ WizardFrame

NextWizard ==
  \/ \E u \in UpdateChoices :
       renderStepContent = u.field /\ onUpdate(u.field, u.value) /\ WizardFrame
  \/ handleNext /\ WizardFrame
  \/ handleBack /\ WizardFrame
  \/ onboarding.currentStep = "review" /\ handleFinalSubmit /\ WizardFrame
  \/ InsertSucceeds /\ WizardFrame
  \/ InsertFails /\ WizardFrame

SpecWizard == Init /\ [][NextWizard]_vars

\* every insert that is awaited returns, with or without an error
SpecWizardFair == SpecWizard /\ WF_vars(InsertReturns)

(***************************************************************************)
(* The import session, from mount to the hand-off to the attendance step   *)
(***************************************************************************)
Next ==
  \/ (\E file \in Files :
        Len(uploads) < MaxUploads /\ Len(pending) < MaxPending
          /\ handleFileUpload(file)) /\ UNCHANGED <<onboarding, storeVars>>
  \/ (\E k \in 1..MaxPending : PapaComplete(k)) /\ UNCHANGED <<onboarding, storeVars>>
  \/ (\E k \in 1..MaxPending : PapaError(k)) /\ UNCHANGED <<onboarding, storeVars>>
  \/ (\E k \in 1..MaxPending : ReaderOnload(k)) /\ UNCHANGED <<onboarding, storeVars>>
  \/ (\E k \in 1..MaxPending : ReaderOnerror(k)) /\ UNCHANGED <<onboarding, storeVars>>
  \/ (mappingOps < MaxMappingOps /\ handleAddMapping) /\ UNCHANGED <<onboarding, storeVars>>
  \/ (\E index \in IndexChoices, csvColumn \in EditSources, dbColumn \in EditTargets :
        mappingOps < MaxMappingOps
          /\ handleSaveMapping(index, csvColumn, dbColumn)) /\ UNCHANGED <<onboarding, storeVars>>
  \/ (\E index \in IndexChoices :
        \E editCsvColumn \in EditCsvChoices(index),
           editDbColumn \in EditDbChoices(index) :
          mappingOps < MaxMappingOps
            /\ ColumnMapperSave(index, editCsvColumn, editDbColumn))
       /\ UNCHANGED <<onboarding, storeVars>>
  \/ (\E index \in IndexChoices :
        mappingOps < MaxMappingOps /\ handleDeleteMapping(index))
       /\ UNCHANGED <<onboarding, storeVars>>
  \/ handleShowPreview /\ UNCHANGED <<onboarding, storeVars>>
  \/ onClearErrors /\ UNCHANGED <<onboarding, storeVars>>
  \/ (\E rowIndex \in 0..(Len(csvData) - 1) : toggleRowExclusion(rowIndex))
       /\ UNCHANGED <<onboarding, storeVars>>
  \/ toggleExcludeAllInvalid /\ UNCHANGED <<onboarding, storeVars>>
  \/ handleImport /\ UNCHANGED <<onboarding, storeVars>>

Spec == Init /\ [][Next]_vars

(***************************************************************************)
(* Uploads only: one file after another, or a second file while the parse  *)
(* of the first is still in flight                                         *)
(***************************************************************************)
NextUploads ==
  \/ (\E file \in Files :
        Len(uploads) < MaxReloads /\ Len(pending) < MaxReloads
          /\ handleFileUpload(file)) /\ UNCHANGED <<onboarding, storeVars>>
  \/ (\E k \in 1..MaxReloads : PapaComplete(k)) /\ UNCHANGED <<onboarding, storeVars>>
  \/ (\E k \in 1..MaxReloads : PapaError(k)) /\ UNCHANGED <<onboarding, storeVars>>
  \/ (\E k \in 1..MaxReloads : ReaderOnload(k)) /\ UNCHANGED <<onboarding, storeVars>>
  \/ (\E k \in 1..MaxReloads : ReaderOnerror(k)) /\ UNCHANGED <<onboarding, storeVars>>

SpecUploads == Init /\ [][NextUploads]_vars

(***************************************************************************)
(* The mapping panel: one file is loaded and its mappings are added,       *)
(* edited and deleted, several times in a row                              *)
(***************************************************************************)
NextMappings ==
  \/ (\E file \in Files :
        Len(uploads) < MaxUploads /\ Len(pending) < MaxPending
          /\ handleFileUpload(file)) /\ UNCHANGED <<onboarding, storeVars>>
  \/ (\E k \in 1..MaxPending : PapaComplete(k)) /\ UNCHANGED <<onboarding, storeVars>>
  \/ (\E k \in 1..MaxPending : PapaError(k)) /\ UNCHANGED <<onboarding, storeVars>>
  \/ (\E k \in 1..MaxPending : ReaderOnload(k)) /\ UNCHANGED <<onboarding, storeVars>>
  \/ (\E k \in 1..MaxPending : ReaderOnerror(k)) /\ UNCHANGED <<onboarding, storeVars>>
  \/ (mappingOps < MaxEdits /\ handleAddMapping) /\ UNCHANGED <<onboarding, storeVars>>
  \/ (\E index \in IndexChoices, csvColumn \in EditSources, dbColumn \in EditTargets :
        mappingOps < MaxEdits
          /\ handleSaveMapping(index, csvColumn, dbColumn)) /\ UNCHANGED <<onboarding, storeVars>>
  \/ (\E index \in IndexChoices :
        \E editCsvColumn \in EditCsvChoices(index),
           editDbColumn \in EditDbChoices(index) :
          mappingOps < MaxEdits
            /\ ColumnMapperSave(index, editCsvColumn, editDbColumn))
       /\ UNCHANGED <<onboarding, storeVars>>
  \/ (\E index \in IndexChoices :
        mappingOps < MaxEdits /\ handleDeleteMapping(index))
       /\ UNCHANGED <<onboarding, storeVars>>
  \/ handleShowPreview /\ UNCHANGED <<onboarding, storeVars>>
  \/ onClearErrors /\ UNCHANGED <<onboarding, storeVars>>

SpecMappings == Init /\ [][NextMappings]_vars

(***************************************************************************)
(* Properties of the import session and of the attendance importer         *)
(***************************************************************************)
\* the row state of the csvData row at position i (1-based) lets it through
Included(i) ==
  i \in DOMAIN rowValidations =>
    /\ ~ rowValidations[i].excluded
    /\ ~ (excludeAllInvalid /\ rowValidations[i].errors # <<>>)

\* the matched mappings that target field, and the last of them
MatchedFor(field) ==
  {m \in DOMAIN columnMappings :
     columnMappings[m].matched /\ columnMappings[m].dbColumn = field}

LastMatchedFor(field) ==
  CHOOSE m \in MatchedFor(field) : \A n \in MatchedFor(field) : n <= m

\* the required fields no matched mapping targets
Unmapped ==
  {requiredFields[f] : f \in {g \in DOMAIN requiredFields :
                                MatchedFor(requiredFields[g]) = {}}}

\* the last step saved a mapping and the target was allowed / was not
SavedMapping ==
  lastOp.op \in {"handleSaveMapping", "ColumnMapperSave"} /\ lastOp.ok

RejectedMapping ==
  lastOp.op \in {"handleSaveMapping", "ColumnMapperSave"} /\ ~ lastOp.ok

\* the last step completed a file load with rows
LoadedFile == lastOp.op \in {"PapaComplete", "ReaderOnload"} /\ lastOp.ok

\* the issues of the session are those of its rows under its mappings
IssuesMatchMappings ==
  /\ errors = Flatten([i \in DOMAIN csvData |->
                         RowErrors(csvData[i], i, columnMappings)])
  /\ rowValidations =
       [i \in DOMAIN csvData |->
          [rowIndex |-> i - 1,
           errors |-> RowErrors(csvData[i], i, columnMappings),
           excluded |-> FALSE]]

\* C1: whenever handleImport has just run, none of the rows it emitted a
\* record for is excluded, and with excludeAllInvalid set none of them has
\* an issue; it emitted one record per row it let through.
C1_NoExcludedRowEmitted ==
  lastOp.op = "handleImport" =>
    /\ Len(onImportData) = Len(onImportRows)
    /\ \A k \in DOMAIN onImportRows :
         /\ onImportRows[k] + 1 \in DOMAIN rowValidations
         /\ ~ rowValidations[onImportRows[k] + 1].excluded
         /\ excludeAllInvalid =>
              rowValidations[onImportRows[k] + 1].errors = <<>>

\* handleImport ran with excludeAllInvalid set on a row that has issues but
\* is not excluded itself, and emitted the other row
C1_Witness ==
  /\ lastOp.op = "handleImport"
  /\ excludeAllInvalid
  /\ \E i \in DOMAIN rowValidations :
       rowValidations[i].errors # <<>> /\ ~ rowValidations[i].excluded
  /\ Len(onImportData) = 1

\* C2: after a mapping has been saved, the global issue list and every
\* row's issue list are the result of validating the rows against the
\* mapping set that holds the saved mapping.
C2_SavedMappingRevalidates == SavedMapping => IssuesMatchMappings

\* C3: after a file load has completed with rows, the global issue list and
\* every row's issue list are the result of validating the new rows against
\* the mappings the matcher proposed for this file.
C3_LoadValidatesProposedMappings == LoadedFile => IssuesMatchMappings

\* a record of the emitted sequence names an existing student and holds a
\* value for every required field
Acceptable(record) ==
  /\ \A f \in DOMAIN requiredFields :
       requiredFields[f] \in DOMAIN record /\ Truthy(record[requiredFields[f]])
  /\ \E s \in DOMAIN students :
       record["school_student_id"] = Str(students[s].school_student_id)

\* C4: when handleImport hands the attendance step a sequence with a record
\* that names an existing student and holds every required value, the
\* accumulated list of the step holds a record afterwards.
C4_HandedRecordsAreAccepted ==
  (lastOp.op = "handleImport"
     /\ \E k \in DOMAIN onImportData : Acceptable(onImportData[k]))
    => cachedData # <<>>

\* the outcomes of the data rows of sheet n, one per row after the header
\* (<<>> when the sheet has no header row or the header row throws), and
\* the 0-based index of the row before the first of them
DataOffset(raw) ==
  IF isLinkItFormat(raw) THEN LinkItFirstRow - 1 ELSE headerRowIndex(raw)

DataOutcomes(raw) ==
  IF isLinkItFormat(raw) THEN LinkItOutcomes(raw, attendanceYear(raw))
  ELSE IF headerRowIndex(raw) = -1 \/ HeadersThrow(raw[headerRowIndex(raw) + 1])
  THEN <<>>
  ELSE StandardOutcomes(raw, headerRowIndex(raw),
                        NormalizedHeaders(raw[headerRowIndex(raw) + 1]),
                        attendanceYear(raw))

\* the j-th smallest element of a set of numbers
Nth(S, j) == CHOOSE x \in S : Cardinality({y \in S : y < x}) = j - 1

\* what C5 says of an import whose data rows had the given outcomes
AllOrNothing(outcomes, offset) ==
  LET failing == {k \in DOMAIN outcomes : outcomes[k].kind = "error"}
      imported == {k \in DOMAIN outcomes : outcomes[k].kind = "record"}
      shown == IF Cardinality(failing) < 10 THEN Cardinality(failing) ELSE 10
  IN  IF failing # {}
      THEN /\ ~ lastOp'.ok
           /\ cachedData' = cachedData
           /\ error'.kind = "rows"
           /\ Len(error'.entries) = shown
           /\ \A j \in 1..shown :
                /\ error'.entries[j] = outcomes[Nth(failing, j)]
                /\ error'.entries[j].rowNumber = offset + Nth(failing, j) + 1
      ELSE /\ lastOp'.ok
           /\ error' = NoError
           /\ Len(cachedData') = Len(cachedData) + Cardinality(imported)
           /\ \A j \in DOMAIN cachedData : cachedData'[j] = cachedData[j]
           /\ \A j \in 1..Cardinality(imported) :
                cachedData'[Len(cachedData) + j] = outcomes[Nth(imported, j)].record

\* C5: in both layouts, an import with at least one failing data row does
\* not call onUpdate, leaves the accumulated list as it was and shows the
\* first 10 errors in row order, each with its 1-based row number; an import
\* with no failing row appends its records in row order and clears the error.
C5_ImportIsAllOrNothing ==
  [][(lastOp'.op = "handleBulkImport"
        /\ (isLinkItFormat(RawInputs[lastOp'.index])
              \/ (/\ headerRowIndex(RawInputs[lastOp'.index]) # -1
                  /\ ~ HeadersThrow(RawInputs[lastOp'.index]
                                      [headerRowIndex(RawInputs[lastOp'.index]) + 1]))))
       => AllOrNothing(DataOutcomes(RawInputs[lastOp'.index]),
                       DataOffset(RawInputs[lastOp'.index]))]_vars

\* an import of more than 10 failing rows and one that imports was rejected
\* with 10 errors shown, on a list that already held records
C5_Witness ==
  /\ lastOp.op = "handleBulkImport"
  /\ ~ lastOp.ok
  /\ Len(error.entries) = 10
  /\ Cardinality({k \in DOMAIN DataOutcomes(RawInputs[lastOp.index]) :
                    DataOutcomes(RawInputs[lastOp.index])[k].kind = "error"}) > 10
  /\ \E k \in DOMAIN DataOutcomes(RawInputs[lastOp.index]) :
       DataOutcomes(RawInputs[lastOp.index])[k].kind = "record"
  /\ cachedData # <<>>

\* C6: handleImport emits one record per row that is let through, in row
\* order; the keys of a record are the targets of the matched mappings, and
\* the value of a key is the row's cell in the source column of the last
\* matched mapping that targets it.  A row with Student ID "S1" and Date
\* "2024-01-05", under mappings that write school_student_id from Student ID
\* and record_date from Date, gives school_student_id "S1" and record_date
\* "2024-01-05".
C6_RecordPerIncludedRow ==
  lastOp.op = "handleImport" =>
    /\ Len(onImportData) = Cardinality({i \in DOMAIN csvData : Included(i)})
    /\ \A i \in DOMAIN csvData :
         Included(i) =>
           LET record ==
                 onImportData[Cardinality({j \in 1..(i - 1) : Included(j)}) + 1]
           IN  /\ DOMAIN record =
                    {columnMappings[m].dbColumn :
                       m \in {n \in DOMAIN columnMappings : columnMappings[n].matched}}
               /\ \A field \in DOMAIN record :
                    record[field] =
                      Cell(csvData[i], columnMappings[LastMatchedFor(field)].csvColumn)
               /\ (/\ Cell(csvData[i], "Student ID") = Str("S1")
                   /\ Cell(csvData[i], "Date") = Str("2024-01-05")
                   /\ MatchedFor("school_student_id") # {}
                   /\ MatchedFor("record_date") # {}
                   /\ columnMappings[LastMatchedFor("school_student_id")].csvColumn
                        = "Student ID"
                   /\ columnMappings[LastMatchedFor("record_date")].csvColumn = "Date")
                  => /\ record["school_student_id"] = Str("S1")
                     /\ record["record_date"] = Str("2024-01-05")

\* handleImport emitted one row and left the other out, with two matched
\* mappings from different columns on one field
C6_Witness ==
  /\ lastOp.op = "handleImport"
  /\ Len(onImportData) = 1
  /\ Len(csvData) = 2
  /\ \E m, n \in DOMAIN columnMappings :
       /\ m < n
       /\ columnMappings[m].matched /\ columnMappings[n].matched
       /\ columnMappings[m].dbColumn = columnMappings[n].dbColumn
       /\ columnMappings[m].csvColumn # columnMappings[n].csvColumn

\* C7: a save whose target field is not among availableColumns leaves the
\* mappings, the row states, excludeAllInvalid and the snapshot as they
\* were, and the errors are one issue of type "mapping" afterwards, also
\* when the save comes from the edit row of ColumnMapper.
C7_RejectedEditReportsError ==
  RejectedMapping =>
    /\ Len(errors) = 1
    /\ errors[1].type = "mapping"

\* C8: handleShowPreview shows the preview when every required field has a
\* matched mapping; otherwise it leaves showPreview as it was and makes the
\* errors one issue of type "mapping" that names every missing field.
C8_PreviewNeedsRequiredMappings ==
  [][lastOp'.op = "handleShowPreview" =>
       IF Unmapped = {}
       THEN showPreview' /\ lastOp'.ok
       ELSE /\ showPreview' = showPreview
            /\ ~ lastOp'.ok
            /\ Len(errors') = 1
            /\ errors'[1].type = "mapping"
            /\ Len(errors'[1].missing) = Cardinality(Unmapped)
            /\ Range(errors'[1].missing) = Unmapped]_vars

\* handleShowPreview was refused with several required fields missing
C8_Witness ==
  /\ lastOp.op = "handleShowPreview"
  /\ ~ lastOp.ok
  /\ ~ showPreview
  /\ Cardinality(Unmapped) > 1
  /\ Len(errors) = 1

\* C9: while the preview is shown, every required field has a matched
\* mapping.
C9_PreviewKeepsRequiredMappings == showPreview => Unmapped = {}

\* C10: turning excludeAllInvalid on stores the row states as the snapshot,
\* excludes the rows with issues, leaves the excluded flag of the other rows
\* and every issue list as they were, and leaves the global issues alone.
C10_BulkExcludeOn ==
  [][(lastOp'.op = "toggleExcludeAllInvalid" /\ lastOp'.ok) =>
       /\ excludeAllInvalid'
       /\ originalRowValidations' = rowValidations
       /\ DOMAIN rowValidations' = DOMAIN rowValidations
       /\ \A i \in DOMAIN rowValidations :
            /\ rowValidations'[i].errors = rowValidations[i].errors
            /\ rowValidations'[i].rowIndex = rowValidations[i].rowIndex
            /\ rowValidations'[i].excluded =
                 (rowValidations[i].excluded \/ rowValidations[i].errors # <<>>)
       /\ errors' = errors
       /\ errorSections' = errorSections]_vars

\* excludeAllInvalid was turned on over a row with issues that is excluded
\* now and a row without issues that was excluded by hand
C10_Witness ==
  /\ lastOp.op = "toggleExcludeAllInvalid"
  /\ lastOp.ok
  /\ \E i \in DOMAIN rowValidations :
       /\ rowValidations[i].errors # <<>>
       /\ rowValidations[i].excluded
       /\ ~ originalRowValidations[i].excluded
  /\ \E i \in DOMAIN rowValidations :
       /\ rowValidations[i].errors = <<>>
       /\ rowValidations[i].excluded

\* the last step was a step of the bulk toggle that turned it on / off
TurnedOn(op) == op.op = "toggleExcludeAllInvalid" /\ op.ok
TurnedOff(op) == op.op = "toggleExcludeAllInvalid" /\ ~ op.ok

\* the excluded flags of the rows, in row order
Flags(rows) == [i \in DOMAIN rows |-> rows[i].excluded]

\* the issue lists of the rows, in row order
Issues(rows) == [i \in DOMAIN rows |-> rows[i].errors]

\* C11: when the bulk toggle is turned off in the step right after the step
\* that turned it on, every row's excluded flag is the one the snapshot of
\* the on-step holds (the row states before it, see C10); for a row without
\* issues that is also the flag it has kept since.
C11_OnThenOffRestores ==
  [][(TurnedOn(lastOp) /\ TurnedOff(lastOp')) =>
       /\ ~ excludeAllInvalid'
       /\ Flags(rowValidations') = Flags(originalRowValidations)
       /\ \A i \in DOMAIN rowValidations :
            rowValidations[i].errors = <<>> =>
              rowValidations'[i].excluded = rowValidations[i].excluded]_vars

\* the bulk toggle went on and off in two steps in a row; a row excluded by
\* hand before is excluded again and a row with issues is included again
C11_Witness ==
  /\ TurnedOff(lastOp)
  /\ lastOp.prev = "toggleExcludeAllInvalid"
  /\ \E i \in DOMAIN rowValidations : rowValidations[i].excluded
  /\ \E i \in DOMAIN rowValidations :
       rowValidations[i].errors # <<>> /\ ~ rowValidations[i].excluded

\* C12: a toggleRowExclusion made while the bulk toggle is on leaves the
\* snapshot as it is, and turning the bulk toggle off gives every row the
\* excluded flag the snapshot holds, whatever the flags were before the step.
C12_OffDiscardsRowToggles ==
  [][/\ (excludeAllInvalid /\ lastOp'.op = "toggleRowExclusion") =>
          originalRowValidations' = originalRowValidations
     /\ TurnedOff(lastOp') =>
          /\ Flags(rowValidations') = Flags(originalRowValidations)
          /\ originalRowValidations' = originalRowValidations]_vars

\* the bulk toggle was turned off right after a toggleRowExclusion, and the
\* row that step had flipped has the flag of the snapshot again
C12_Witness ==
  /\ TurnedOff(lastOp)
  /\ lastOp.prev = "toggleRowExclusion"
  /\ Len(rowValidations) > 1
  /\ Flags(rowValidations) = Flags(originalRowValidations)

\* the steps that load a file or start a load
LoadOps ==
  {"handleFileUpload", "PapaComplete", "PapaError", "ReaderOnload", "ReaderOnerror"}

\* C13: while the bulk toggle is on, no step other than a file load
\* replaces the snapshot, so that turning the toggle off restores the row
\* states of the moment it was turned on.
C13_SnapshotKeptWhileOn ==
  [][(excludeAllInvalid /\ lastOp'.op \notin LoadOps) =>
       originalRowValidations' = originalRowValidations]_vars

\* C14: in a step that is neither a file load nor a step of the bulk toggle,
\* the excluded flag of a row changes only if the step is
\* toggleRowExclusion for that row.
C14_FlagsChangeOnlyByToggles ==
  [][(lastOp'.op \notin LoadOps \cup {"toggleExcludeAllInvalid"}) =>
       /\ DOMAIN rowValidations' = DOMAIN rowValidations
       /\ \A i \in DOMAIN rowValidations :
            rowValidations'[i].excluded # rowValidations[i].excluded =>
              /\ lastOp'.op = "toggleRowExclusion"
              /\ lastOp'.index = rowValidations[i].rowIndex]_vars

\* C15: toggleRowExclusion(rowIndex) flips the excluded flag of the one row
\* with that rowIndex and leaves the other flags, every issue list, the
\* mappings, the bulk toggle and the snapshot as they were; the same call
\* on the new state gives the old row states back.
C15_RowToggleFlipsOneRow ==
  [][lastOp'.op = "toggleRowExclusion" =>
       /\ Cardinality({i \in DOMAIN rowValidations :
                         rowValidations[i].rowIndex = lastOp'.index}) = 1
       /\ DOMAIN rowValidations' = DOMAIN rowValidations
       /\ \A i \in DOMAIN rowValidations :
            /\ rowValidations'[i].excluded =
                 IF rowValidations[i].rowIndex = lastOp'.index
                 THEN ~ rowValidations[i].excluded
                 ELSE rowValidations[i].excluded
            /\ rowValidations'[i].rowIndex = rowValidations[i].rowIndex
       /\ Issues(rowValidations') = Issues(rowValidations)
       /\ errors' = errors
       /\ columnMappings' = columnMappings
       /\ excludeAllInvalid' = excludeAllInvalid
       /\ originalRowValidations' = originalRowValidations
       /\ flipExclusion(rowValidations', lastOp'.index) = rowValidations]_vars

\* with the bulk toggle on, the second of two rows was included again by
\* toggleRowExclusion while the first stays excluded
C15_Witness ==
  /\ lastOp.op = "toggleRowExclusion"
  /\ lastOp.index = 1
  /\ excludeAllInvalid
  /\ Len(rowValidations) = 2
  /\ rowValidations[1].excluded
  /\ ~ rowValidations[2].excluded
  /\ rowValidations[2].errors # <<>>

\* the callbacks of a parse or read
Callbacks == {"PapaComplete", "PapaError", "ReaderOnload", "ReaderOnerror"}

\* the last step was a file load that failed
FailedLoad(op) == op.op \in LoadOps /\ ~ op.ok

\* C16: a step in which a file load fails leaves exactly one issue, of type
\* "format", in the error list, leaves the mappings, the rows and the row
\* states as they were (nothing is matched or validated), and leaves the
\* mapping panel and the preview hidden; for a file that is neither .csv
\* nor .xlsx nor .xls no parse or read is started.
C16_FailedLoadReportsOneFormatIssue ==
  [][FailedLoad(lastOp') =>
       /\ Len(errors') = 1
       /\ errors'[1].type = "format"
       /\ columnMappings' = columnMappings
       /\ csvData' = csvData
       /\ rowValidations' = rowValidations
       /\ ~ showMappings'
       /\ ~ showPreview'
       /\ lastOp'.op = "handleFileUpload" => pending' = pending]_vars

\* C17: after a file load that failed the session holds no rows, no
\* mappings and no row states.
C17_FailedLoadEmptiesSession ==
  FailedLoad(lastOp) =>
    /\ csvData = <<>>
    /\ columnMappings = <<>>
    /\ rowValidations = <<>>

\* the file of the upload started last
LatestUpload == uploads[Len(uploads)]

\* C18: once every parse has completed, if the file uploaded last parsed to
\* rows then the session holds its rows, its columns and the mappings
\* proposed for them, whichever callback ran last.
C18_LatestUploadOwnsSession ==
  (/\ Len(uploads) > 1
   /\ pending = <<>>
   /\ lastOp.op \in Callbacks
   /\ LatestUpload.ext \in {"csv", "xlsx", "xls"}
   /\ LatestUpload.outcome = "rows"
   /\ LatestUpload.rows # <<>>)
    => /\ csvData = LatestUpload.rows
       /\ csvColumns = ObjectKeys(LatestUpload.rows[1])
       /\ columnMappings =
            findBestColumnMatches(ObjectKeys(LatestUpload.rows[1]), availableColumns)
       /\ showMappings

\* the inserts of the records of one list into one table
InsertsInto(table, records) == [i \in DOMAIN records |-> <<table, records[i]>>]

\* the order of inserts the wizard's data calls for: the district when it
\* has no district_id, the school, then list by list
ExpectedOrder(data) ==
  (IF DistrictId(data.district) = "" THEN <<<<"districts", data.district>>>> ELSE <<>>)
    \o <<<<"schools", data.school>>>>
    \o InsertsInto("admin_users", data.admins)
    \o InsertsInto("teachers", data.teachers)
    \o InsertsInto("students", data.students)
    \o InsertsInto("classrooms", data.classrooms)
    \o InsertsInto("classroom_enrollments", data.enrollments)
    \o InsertsInto("attendance_records", data.attendanceRecords)
    \o InsertsInto("assessment_external_processed", data.assessmentRecords)
    \o InsertsInto("individualized_needs", data.individualizedNeeds)

\* table and record of each insert of a sequence
TableAndRecord(inserts) ==
  [i \in DOMAIN inserts |-> <<inserts[i].table, inserts[i].record>>]

\* the last n elements of a sequence
LastOf(seq, n) == SubSeq(seq, Len(seq) - n + 1, Len(seq))

\* the state of a final submit: the inserts called so far are the first of
\* the expected order; all but the one awaited, or the one that failed,
\* are stored; after a failure nothing is awaited and the error is the
\* message of the insert called last
SubmitInOrder(o) ==
  /\ Len(o.issued) <= Len(ExpectedOrder(o.submitted))
  /\ TableAndRecord(o.issued) =
       SubSeq(ExpectedOrder(o.submitted), 1, Len(o.issued))
  /\ LET settled == IF o.awaiting \/ o.error # ""
                    THEN Len(o.issued) - 1 ELSE Len(o.issued)
     IN  /\ settled <= Len(o.stored)
         /\ TableAndRecord(LastOf(o.stored, settled)) =
              SubSeq(ExpectedOrder(o.submitted), 1, settled)
  /\ o.error # "" =>
       /\ ~ o.awaiting
       /\ ~ o.isLoading
       /\ o.issued # <<>>
       /\ o.error = InsertErrorMessage(o.issued[Len(o.issued)].table)
  /\ o.awaiting => o.isLoading /\ o.error = ""

\* C19: handleFinalSubmit calls its inserts one at a time in the order
\* district (only without district_id), school, admins, teachers, students,
\* classrooms, enrollments, attendance records, assessment records,
\* individualized needs, each list in list order; when an insert returns an
\* error no further insert is called, the wizard's error is that error's
\* message, and no stored row is ever removed.
C19_InsertsInOrderUntilFirstError ==
  [][/\ SubmitInOrder(onboarding')
     /\ Len(onboarding'.stored) >= Len(onboarding.stored)
     /\ SubSeq(onboarding'.stored, 1, Len(onboarding.stored)) = onboarding.stored
     /\ (onboarding.error # "" /\ onboarding'.error # "") =>
          onboarding'.issued = onboarding.issued]_vars

\* a submit with a new district, teachers and students failed at the first
\* student: district, school and teacher are stored, the second student
\* was never inserted
C19_Witness ==
  /\ onboarding.error = InsertErrorMessage("students")
  /\ Len(onboarding.issued) = 4
  /\ Len(onboarding.stored) = 3
  /\ onboarding.stored[1].table = "districts"
  /\ Len(InsertPlan(onboarding.submitted)) = 5
  /\ ~ onboarding.isLoading

\* C20: handleDeleteMapping(index) removes the mapping at index, keeps the
\* others in their order, and leaves the row states, the global issues, the
\* bulk toggle, the snapshot and the preview flag as they were.
C20_DeleteRemovesOneMapping ==
  [][lastOp'.op = "handleDeleteMapping" =>
       /\ lastOp'.index \in DOMAIN columnMappings
       /\ Len(columnMappings') = Len(columnMappings) - 1
       /\ \A i \in DOMAIN columnMappings' :
            columnMappings'[i] =
              IF i < lastOp'.index THEN columnMappings[i] ELSE columnMappings[i + 1]
       /\ rowValidations' = rowValidations
       /\ errors' = errors
       /\ errorSections' = errorSections
       /\ excludeAllInvalid' = excludeAllInvalid
       /\ originalRowValidations' = originalRowValidations
       /\ showPreview' = showPreview
       /\ csvData' = csvData]_vars

\* the first of several mappings was deleted while the preview is shown and
\* the bulk toggle is on
C20_Witness ==
  /\ lastOp.op = "handleDeleteMapping"
  /\ lastOp.index = 1
  /\ Len(columnMappings) > 1
  /\ showPreview
  /\ excludeAllInvalid

\* a mapping made by hand from a source column to a target field
ManualMapping(csvColumn, dbColumn) ==
  [csvColumn |-> csvColumn, dbColumn |-> dbColumn, similarity |-> 100,
   matched |-> TRUE, manual |-> TRUE]

\* C21: handleAddMapping appends one mapping to the end of the mappings:
\* from the first source column of the loaded file to the first allowed
\* target field, manual, matched, with similarity 1; the mappings before
\* it, the rows and the row states stay as they were.
C21_AddAppendsOneManualMapping ==
  [][lastOp'.op = "handleAddMapping" =>
       /\ csvColumns # <<>>
       /\ Len(columnMappings') = Len(columnMappings) + 1
       /\ \A i \in DOMAIN columnMappings : columnMappings'[i] = columnMappings[i]
       /\ columnMappings'[Len(columnMappings')].csvColumn = csvColumns[1]
       /\ availableColumns # <<>> =>
            columnMappings'[Len(columnMappings')] =
              ManualMapping(csvColumns[1], availableColumns[1])
       /\ columnMappings'[Len(columnMappings')].manual
       /\ columnMappings'[Len(columnMappings')].matched
       /\ columnMappings'[Len(columnMappings')].similarity = 100
       /\ rowValidations' = rowValidations
       /\ originalRowValidations' = originalRowValidations
       /\ csvData' = csvData]_vars

\* after an edit that left issues in the row states, a mapping from
\* "Student ID" to "school_student_id" was added behind the others
C21_Witness ==
  /\ lastOp.op = "handleAddMapping"
  /\ mappingOps = 2
  /\ Len(columnMappings) > 2
  /\ columnMappings[Len(columnMappings)] =
       ManualMapping("Student ID", "school_student_id")
  /\ \E i \in DOMAIN rowValidations : rowValidations[i].errors # <<>>

\* the steps that save an edit of a mapping
SaveOps == {"handleSaveMapping", "ColumnMapperSave"}

\* a mapping made by hand is where it was after a step, or one place
\* further up when the step deleted a mapping before it
KeptManual(j) ==
  IF lastOp'.op = "handleDeleteMapping"
  THEN \/ lastOp'.index = j
       \/ lastOp'.index > j /\ j \in DOMAIN columnMappings'
                            /\ columnMappings'[j] = columnMappings[j]
       \/ lastOp'.index < j /\ j - 1 \in DOMAIN columnMappings'
                            /\ columnMappings'[j - 1] = columnMappings[j]
  ELSE j \in DOMAIN columnMappings' /\ columnMappings'[j] = columnMappings[j]

\* C22: a save that is accepted puts the given source column and target
\* field at the given index, manual, matched, with similarity 1, and leaves
\* every other mapping as it was; a save that is rejected changes no
\* mapping; and no step other than a save, a delete of that mapping or a
\* file load changes a mapping made by hand.
C22_EditedMappingStays ==
  [][/\ (lastOp'.op \in SaveOps /\ lastOp'.ok) =>
          /\ DOMAIN columnMappings' = DOMAIN columnMappings
          /\ lastOp'.index \in DOMAIN columnMappings
          /\ \A i \in DOMAIN columnMappings :
               columnMappings'[i] =
                 IF i = lastOp'.index
                 THEN ManualMapping(lastOp'.args[1], lastOp'.args[2])
                 ELSE columnMappings[i]
     /\ (lastOp'.op \in SaveOps /\ ~ lastOp'.ok) =>
          columnMappings' = columnMappings
     /\ (lastOp'.op \notin SaveOps \cup LoadOps) =>
          \A j \in DOMAIN columnMappings :
            columnMappings[j].manual => KeptManual(j)]_vars

\* the last mapping was edited to read "Notes" into record_date, and then
\* the first mapping was deleted: the edited mapping moved up as it was
C22_Witness ==
  /\ lastOp.op = "handleDeleteMapping"
  /\ lastOp.index = 1
  /\ columnMappings # <<>>
  /\ columnMappings[Len(columnMappings)] = ManualMapping("Notes", "record_date")

\* C23: the target field of every mapping made by hand (by handleAddMapping
\* or by an accepted save) is one of availableColumns, whatever that list
\* holds.
C23_ManualTargetsAreAllowed ==
  \A j \in DOMAIN columnMappings :
    columnMappings[j].manual => SeqIncludes(availableColumns, columnMappings[j].dbColumn)

\* the checks of validateData in the order it makes them
CheckNames == <<"required", "email", "date", "number", "uuid">>

\* whether the named check fails for a raw value under a target field
CheckFails(check, value, field) ==
  CASE check = "required" ->
         SeqIncludes(requiredFields, field) /\ (~ Truthy(value) \/ TrimIsEmpty(value))
    [] check = "email" ->
         /\ Includes(ToLowerCase(Chars(field)), Chars("email"))
         /\ Truthy(value)
         /\ ~ emailRegex(Chars(value.s))
    [] check = "date" ->
         /\ Includes(Chars(field), Chars("date"))
         /\ Truthy(value)
         /\ ~ dateRegex(Chars(value.s))
    [] check = "number" ->
         /\ COLUMN_TYPES(field) \in {"numeric", "integer"}
         /\ Truthy(value)
         /\ NumberIsNaN(value)
    [] check = "uuid" ->
         /\ COLUMN_TYPES(field) = "uuid"
         /\ Truthy(value)
         /\ ~ uuidRegex(Chars(value.s))

\* type and message of the issue a failing check records
IssueOfCheck(check) ==
  CASE check = "required" -> <<"required", "Missing required value">>
    [] check = "email" -> <<"format", "Invalid email format">>
    [] check = "date" -> <<"format", "Invalid date format">>
    [] check = "number" -> <<"format", "Invalid number format">>
    [] check = "uuid" -> <<"format", "Invalid UUID format">>

\* the issues the claim expects for the row at position i: one per matched
\* mapping and failing check, in mapping order then check order, each as
\* <<type, message, field, row number>>
ExpectedRowIssues(data, mappings, i) ==
  LET checks == Len(CheckNames)
      mappingOf(p) == mappings[((p - 1) \div checks) + 1]
      checkOf(p) == CheckNames[((p - 1) % checks) + 1]
      fails(p) ==
        /\ mappingOf(p).matched
        /\ CheckFails(checkOf(p), Cell(data[i], mappingOf(p).csvColumn),
                      mappingOf(p).dbColumn)
      failing == SelectSeq([p \in 1..(checks * Len(mappings)) |-> p], fails)
  IN  [n \in DOMAIN failing |->
         IssueOfCheck(checkOf(failing[n])) \o <<mappingOf(failing[n]).dbColumn, i>>]

\* type, message, field and row number of every issue of a list
IssueKeys(issues) ==
  [n \in DOMAIN issues |->
     <<issues[n].type, issues[n].message, issues[n].field, issues[n].row>>]

\* C24: the row states and the error list an accepted save stores hold, for
\* the rows and the mappings validateData read, one issue per matched
\* mapping and failing check (required, email, date, number, uuid), none
\* for an unmatched mapping, in mapping order then check order within a
\* row; the error list is the row lists one after the other in row order.
C24_OneIssuePerFailingCheck ==
  [][(lastOp'.op \in SaveOps /\ lastOp'.ok) =>
       /\ DOMAIN rowValidations' = DOMAIN csvData
       /\ \A i \in DOMAIN csvData :
            IssueKeys(rowValidations'[i].errors) =
              ExpectedRowIssues(csvData, columnMappings, i)
       /\ errors' = Flatten([i \in DOMAIN csvData |-> rowValidations'[i].errors])]_vars

\* a save validated a row whose blank cell is read into the required field
\* record_date: the row holds the required issue and, right after it, the
\* date issue for the same cell, and further issues of other mappings
C24_Witness ==
  /\ lastOp.op \in SaveOps
  /\ lastOp.ok
  /\ \E i \in DOMAIN rowValidations :
       \E n \in 1..(Len(rowValidations[i].errors) - 1) :
         /\ rowValidations[i].errors[n].type = "required"
         /\ rowValidations[i].errors[n].field = "record_date"
         /\ rowValidations[i].errors[n + 1].type = "format"
         /\ rowValidations[i].errors[n + 1].field = "record_date"
         /\ rowValidations[i].errors[n + 1].value = Str(" ")
         /\ Len(rowValidations[i].errors) > 3

\* a raw value that is absent, empty, or blank once trimmed
Blank(value) ==
  \/ value.t \in {"undefined", "null"}
  \/ \A n \in DOMAIN Chars(value.s) : Chars(value.s)[n] = " "

\* the required issues of a row state for a field
RequiredIssues(rowState, field) ==
  {n \in DOMAIN rowState.errors :
     rowState.errors[n].type = "required" /\ rowState.errors[n].field = field}

\* the matched mappings that read a blank value of the row into the field
BlankSources(row, mappings, field) ==
  {k \in DOMAIN mappings :
     /\ mappings[k].matched
     /\ mappings[k].dbColumn = field
     /\ Blank(Cell(row, mappings[k].csvColumn))}

\* C25: in the row states an accepted save stores, a row holds a required
\* issue for a field once for every matched mapping that reads an absent,
\* empty or blank value into it when the field is one of requiredFields,
\* and holds none otherwise, for strings and numbers alike.
C25_RequiredIssueIffBlank ==
  [][(lastOp'.op \in SaveOps /\ lastOp'.ok) =>
       \A i \in DOMAIN csvData :
         \A k \in DOMAIN columnMappings :
           Cardinality(RequiredIssues(rowValidations'[i], columnMappings[k].dbColumn)) =
             IF SeqIncludes(requiredFields, columnMappings[k].dbColumn)
             THEN Cardinality(BlankSources(csvData[i], columnMappings,
                                           columnMappings[k].dbColumn))
             ELSE 0]_vars

\* C26: in the row states an accepted save stores, a row whose value
\* "2024-13-40" is read into record_date by a matched mapping holds a
\* format issue for record_date.
C26_ImpossibleDateFlagged ==
  [][(lastOp'.op \in SaveOps /\ lastOp'.ok) =>
       \A i \in DOMAIN csvData :
         \A k \in DOMAIN columnMappings :
           (/\ columnMappings[k].matched
            /\ columnMappings[k].dbColumn = "record_date"
            /\ Cell(csvData[i], columnMappings[k].csvColumn) = Str("2024-13-40"))
             => \E n \in DOMAIN rowValidations'[i].errors :
                  /\ rowValidations'[i].errors[n].type = "format"
                  /\ rowValidations'[i].errors[n].field = "record_date"]_vars

\* C30: the row states are one per parsed row, the row state at the 0-based
\* position i has rowIndex i, and each of its issues carries the row number
\* i + 1.
C30_OneRowStatePerRow ==
  /\ Len(rowValidations) = Len(csvData)
  /\ \A i \in DOMAIN rowValidations :
       /\ rowValidations[i].rowIndex = i - 1
       /\ \A n \in DOMAIN rowValidations[i].errors :
            rowValidations[i].errors[n].row = i

\* the bulk toggle was turned off over two rows, the second with issues
C30_Witness ==
  /\ TurnedOff(lastOp)
  /\ Len(csvData) = 2
  /\ rowValidations[2].rowIndex = 1
  /\ rowValidations[2].errors # <<>>
  /\ rowValidations[2].errors[1].row = 2

\* the import of the sheet went through its data rows: the LinkIt! layout,
\* or a header row that was found, is not empty and does not throw
RowsProcessed(raw) ==
  \/ isLinkItFormat(raw)
  \/ /\ headerRowIndex(raw) # -1
     /\ raw[headerRowIndex(raw) + 1].length # 0
     /\ ~ HeadersThrow(raw[headerRowIndex(raw) + 1])

\* the rows after the header row, and the cells the importer reads from the
\* k-th of them
DataRows(raw) == 1..(Len(raw) - DataOffset(raw) - 1)

DataValues(raw, k) ==
  IF isLinkItFormat(raw) THEN LinkItValues(raw[DataOffset(raw) + 1 + k])
  ELSE StandardValues(raw[DataOffset(raw) + 1],
                      NormalizedHeaders(raw[DataOffset(raw) + 1]),
                      raw[DataOffset(raw) + 1 + k])

\* a value that is absent or empty
Absent(value) == value.t \in {"undefined", "null"} \/ value.s = ""

\* a row without a student ID, with the ID of no student, or without one
\* of the required values
FailsLookupOrRequired(values) ==
  \/ Absent(values[StudentIdCell])
  \/ \A s \in DOMAIN students :
       Chars(students[s].school_student_id) # JSString(values[StudentIdCell])
  \/ \E n \in RequiredCells : Absent(values[n])

\* the entries of the step's error for the k-th data row
EntriesOf(raw, k) ==
  {j \in DOMAIN error.entries :
     error.entries[j].rowNumber = DataOffset(raw) + k + 1}

\* C27: after an import that went through the data rows, every row after
\* the header row that has no student ID, names no existing student or
\* lacks a required value has exactly one entry in the error list (as far
\* as the list is shown in full), and the import added no record.
C27_FailingRowsAreReported ==
  (lastOp.op = "handleBulkImport" /\ RowsProcessed(RawInputs[lastOp.index]))
    => \A k \in DataRows(RawInputs[lastOp.index]) :
         (/\ FailsLookupOrRequired(DataValues(RawInputs[lastOp.index], k))
          /\ Len(error.entries) < ErrorDisplayLimit)
           => /\ Cardinality(EntriesOf(RawInputs[lastOp.index], k)) = 1
              /\ ~ lastOp.ok

\* the k-th data row gets as far as the date: it is not passed over, names
\* a student and holds every required value
ReachesDate(raw, k) ==
  /\ ~ SkippedRow(raw[DataOffset(raw) + 1 + k])
  /\ Truthy(DataValues(raw, k)[StudentIdCell])
  /\ FindStudent(DataValues(raw, k)[StudentIdCell]) # 0
  /\ \A n \in RequiredCells : Truthy(DataValues(raw, k)[n])

\* new Date(value) is an invalid date
NativeRejects(value) ==
  ~ NativeDateOf(value, JSString(value), SplitDate(JSString(value))).valid

\* the segments of a date between "/" and "-"
Segments(value) == SplitDate(JSString(value))

\* year, month and day put together as YYYY-MM-DD
Dashed(year, month, day) ==
  year \o <<"-">> \o PadStart2(month) \o <<"-">> \o PadStart2(day)

\* what the claim expects of a date that native parsing rejects: the
\* normalised date, or <<>> for a per-row error
ExpectedDate(value) ==
  LET s == Segments(value)
  IN  IF Len(s) = 3 /\ Len(s[1]) = 4 THEN Dashed(s[1], s[2], s[3])
      ELSE IF Len(s) = 3 /\ Len(s[3]) = 4 THEN Dashed(s[3], s[1], s[2])
      ELSE <<>>

\* C28: after an import, for every data row whose result date native
\* parsing rejects: a date of three segments with a first segment of
\* length 4 is stored as YYYY-MM-DD, one with a last segment of length 4
\* is read as MM/DD/YYYY, and every other date gives the row an 'Invalid
\* date format' entry in the error list and the import adds no record.
C28_UnreadableDatesAreErrors ==
  (lastOp.op = "handleBulkImport" /\ RowsProcessed(RawInputs[lastOp.index]))
    => \A k \in DataRows(RawInputs[lastOp.index]) :
         (/\ ReachesDate(RawInputs[lastOp.index], k)
          /\ NativeRejects(DataValues(RawInputs[lastOp.index], k)[ResultDateCell]))
           => IF ExpectedDate(DataValues(RawInputs[lastOp.index], k)[ResultDateCell]) # <<>>
              THEN /\ EntriesOf(RawInputs[lastOp.index], k) = {}
                   /\ lastOp.ok =>
                        \E j \in DOMAIN cachedData :
                          cachedData[j].record_date =
                            ExpectedDate(DataValues(RawInputs[lastOp.index], k)
                                           [ResultDateCell])
              ELSE /\ ~ lastOp.ok
                   /\ Len(error.entries) < ErrorDisplayLimit =>
                        \E j \in EntriesOf(RawInputs[lastOp.index], k) :
                          error.entries[j].message = "Invalid date format"

\* processing the sheet throws: a header row that is found, is not empty
\* and holds a cell that is no string
Throws(raw) ==
  /\ ~ isLinkItFormat(raw)
  /\ headerRowIndex(raw) # -1
  /\ raw[headerRowIndex(raw) + 1].length # 0
  /\ HeadersThrow(raw[headerRowIndex(raw) + 1])

KindOrder == <<"mapping", "required", "format">>

\* the errors of the error list of one kind, in list order
ErrorsOfKind(kind) == SelectSeq(errors, LAMBDA e : e.type = kind)

\* the kinds that have at least one error, in display order
KindsPresent == SelectSeq(KindOrder, LAMBDA kind : ErrorsOfKind(kind) # <<>>)

LegacyAnchors(raw) ==
  /\ Len(raw) > 7
  /\ At(RawAt(raw, 0), 0) = Str("Export Date")
  /\ At(RawAt(raw, 2), 0) = Str("District")
  /\ At(RawAt(raw, 7), 0) = Str("#")

\* a header row among the first ten rows of the sheet: a first cell "#", or
\* more than 20 cells with "id" in the third and "result date" in the 20th
HeaderInFirstTen(raw) ==
  \E i \in 0..9 :
    /\ i < Len(raw)
    /\ \/ At(raw[i + 1], 0) = Str("#")
       \/ /\ raw[i + 1].length > 20
          /\ Includes(ToLowerCase(JSString(At(raw[i + 1], 2))), Chars("id"))
          /\ Includes(ToLowerCase(JSString(At(raw[i + 1], 19))),
                      Chars("result date"))

\* what an import leaves when it ran the given path
LeftBy(result) ==
  [cachedData |-> cachedData', error |-> error', updated |-> lastOp'.ok] = result

\* C32: an import call runs one layout path. A sheet of more than 7 rows
\* whose cells [0][0], [2][0] and [7][0] are "Export Date", "District" and
\* "#" is left as the LinkIt! path leaves it, whatever a header search would
\* find in it; every other sheet is left as the standard path leaves it,
\* and when none of its first ten rows is a header row the import ends with
\* the header error, adds no record and leaves the list as it was.
C32_OneLayoutPath ==
  [][lastOp'.op = "handleBulkImport" =>
       \A raw \in {RawInputs[lastOp'.index]} :
         IF LegacyAnchors(raw)
         THEN LeftBy(Caught(processLinkItFormat(raw)))
         ELSE /\ LeftBy(Caught(processStandardFormat(raw)))
              /\ ~ HeaderInFirstTen(raw)
                   => /\ error'.kind = "Could not locate header row (looking for column \"#\" or attendance format)"
                      /\ cachedData' = cachedData
                      /\ ~ lastOp'.ok]_vars

\* a sheet with a header row below the tenth row was imported into a list
\* that holds a record, and a sheet with the three anchors was imported
C32_Witness ==
  /\ lastOp.op = "handleBulkImport"
  /\ cachedData # <<>>
  /\ ~ LegacyAnchors(RawInputs[lastOp.index])
  /\ ~ HeaderInFirstTen(RawInputs[lastOp.index])
  /\ Len(RawInputs[lastOp.index]) > 10
  /\ error.kind = "Could not locate header row (looking for column \"#\" or attendance format)"

\* the data row of sheet raw that an entry of the step's error is about
RowOfEntry(raw, j) == error.entries[j].rowNumber - DataOffset(raw) - 1

\* C33: after an import that went through the data rows, an entry 'Missing
\* required attendance data' is about a row in which one of the seven
\* required cells (the date and the six totals) is absent or empty; a row
\* whose required cells are all present, the number 0 included, has no such
\* entry.
C33_MissingMeansAbsent ==
  (lastOp.op = "handleBulkImport" /\ RowsProcessed(RawInputs[lastOp.index]))
    => \A j \in DOMAIN error.entries :
         error.entries[j].message = "Missing required attendance data"
           => \E n \in RequiredCells :
                Absent(DataValues(RawInputs[lastOp.index],
                                  RowOfEntry(RawInputs[lastOp.index], j))[n])

\* the wizard step that renders the importer with the template above
OwningStep == "attendance"

\* C34: the record type the importer infers from its template is the record
\* type of the wizard step that owns it: a file loaded in the importer of
\* the attendance step is mapped and validated as attendance records.
C34_RecordTypeIsOwningStep ==
  csvData # <<>> => currentStep = OwningStep

\* C35: the store never holds two rows with the table and the record of one
\* wizard record of the same form: no sequence of final submissions, a
\* retry after a failed one included, inserts a record twice.
C35_NoRecordInsertedTwice ==
  \A i, j \in DOMAIN onboarding.stored :
    (/\ i < j
     /\ onboarding.stored[i].form = onboarding.stored[j].form
     /\ onboarding.stored[i].table = onboarding.stored[j].table)
      => onboarding.stored[i].record # onboarding.stored[j].record

\* the call ends: the awaited insert returned an error
FailedReturn ==
  onboarding.awaiting /\ ~ onboarding'.awaiting /\ onboarding'.error # ""

\* the call ends: the awaited insert was the last one and returned no error
LastReturn ==
  onboarding.awaiting /\ ~ onboarding'.awaiting /\ onboarding'.error = ""

C37_NoDuplicateAttendance ==
  \A i, j \in DOMAIN cachedData :
    (/\ i < j
     /\ cachedData[i].student_id = cachedData[j].student_id)
      => cachedData[i].record_date # cachedData[j].record_date

SpecToast == Init /\ [][NextToast]_vars

\* C38: a timer that hides the toast is the timer of the call that showed
\* the toast on display: no timer hides the toast of a later showToast
\* call, a later call with the same message text included.
C38_TimerHidesOwnToast ==
  [][(/\ toast.timers # <<>>
      /\ toast'.timers = Tail(toast.timers)
      /\ toast.visible
      /\ ~ toast'.visible)
       => toast.shownBy = toast.timers[1].call]_vars

SpecAuth == Init /\ [][NextAuth]_vars

\* a login or logout call resolves in this step
CallResolves == auth'.resolved # auth.resolved

\* C39: when a login call resolves without error the store holds the
\* returned user, no error, and loading false; when it resolves with an
\* error the store holds an error, loading false, and the user it held
\* before; when a logout call resolves without throwing the store holds no
\* user and loading false.
C39_ResolvedCallsSettleStore ==
  [][CallResolves =>
       /\ (auth'.resolved.kind = "login" \/ auth'.resolved.ok) => ~ auth'.loading
       /\ (auth'.resolved.kind = "login" /\ auth'.resolved.ok)
            => (auth'.user = auth'.resolved.returned /\ auth'.error = "")
       /\ (auth'.resolved.kind = "login" /\ ~ auth'.resolved.ok)
            => (auth'.error # "" /\ auth'.user = auth.user)
       /\ (auth'.resolved.kind = "logout" /\ auth'.resolved.ok)
            => auth'.user = ""]_vars

\* C40: while a login or logout call is in flight, loading stays true:
\* only a step in which a call resolves sets loading false; the
\* resolution of getSession and the auth-state-change listener do not.
C40_LoadingWhileInFlight ==
  [][(auth.inFlight # {} /\ auth.loading /\ ~ auth'.loading)
       => CallResolves]_vars
====
